---- MODULE Spec2Model ----
(***************************************************************************)
(* Verification model of the structural parser / classifier tooling:       *)
(*   classifier.py          file classification and LOC counting           *)
(*   ast_parser.py          import classification                          *)
(*   measure_complexity.py  cyclomatic complexity and nesting depth        *)
(*   comment_rewriter.py    comment taxonomy cascade and file rewriting    *)
(* Every component has its own specification (Init/Next pair); the         *)
(* variables of the other components stay at their idle value.             *)
(***************************************************************************)
EXTENDS Integers, Sequences, FiniteSets, TLC

VARIABLES
    content,        \* classifier.py: the text handed to classify_from_content
    result,         \* classifier.py: the ClassificationResult, or NoResult
    tree,           \* ast_parser.py: the import statements of the parsed module
    module_body,    \* ast_parser.py: the def, class and assignment statements of tree.body
    content_lines,  \* ast_parser.py: content.split("\n"), a line being its statements
    parse_result,   \* ast_parser.py: the ParseResult, or NotParsed
    func_node,      \* measure_complexity.py: the subtree of one ast.FunctionDef
    analyzer,       \* measure_complexity.py: the NestingAnalyzer of the last call
    metrics,        \* measure_complexity.py: the FunctionMetrics, or NoMetrics
    lines,          \* classifier.py count_lines: content.split("\n")
    line_no,        \* classifier.py count_lines: lines consumed by the for loop
    in_docstring,   \* classifier.py count_lines: the toggling docstring flag
    code_lines,     \* classifier.py count_lines: the running count
    count_pc,       \* classifier.py count_lines: "input", "loop" or "done"
    comment,        \* comment_rewriter.py: the arguments of classify_comment
    classified,     \* comment_rewriter.py: the CommentInfo, or NotClassified
    files,          \* the file system: the content of every existing path
    dry_run_result, \* rewrite_file: the last call with dry_run=True, or NoCall
    apply_result,   \* rewrite_file: the last call with dry_run=False, or NoCall
    runs,           \* number of runs of the rewrite command
    source_tree,    \* measure_complexity.py analyze_file: the body of ast.parse(source)
    file_metrics,   \* measure_complexity.py analyze_file: the FileMetrics, or NoMetrics
    invocations,    \* the batch driver: the running calls of the core operations
    objects,        \* the heap: the objects the running calls have created
    tracker_data,   \* progress_tracker.py: self.data of the ProgressTracker, or NoData
    tracker_result, \* progress_tracker.py: what the last call returned or raised
    progress_file,  \* progress_tracker.py: analysis_progress.json and its flock
    savers          \* progress_tracker.py: the processes that run save

classifierVars == <<content, result>>
parserVars == <<tree, module_body, content_lines, parse_result>>
complexityVars == <<func_node, analyzer, metrics>>
countVars == <<lines, line_no, in_docstring, code_lines, count_pc>>
commentVars == <<comment, classified>>
rewriteVars == <<files, dry_run_result, apply_result, runs>>
fileVars == <<source_tree, file_metrics>>
driverVars == <<invocations, objects>>
trackerVars == <<tracker_data, tracker_result, progress_file, savers>>

vars == <<content, result, tree, module_body, content_lines, parse_result,
          func_node, analyzer, metrics,
          lines, line_no, in_docstring, code_lines, count_pc,
          comment, classified, files, dry_run_result, apply_result, runs,
          source_tree, file_metrics, invocations, objects,
          tracker_data, tracker_result, progress_file, savers>>

NoResult == [classification |-> "none"]

(***************************************************************************)
(* Generic helpers.                                                        *)
(***************************************************************************)
Range(s) == {s[i] : i \in 1..Len(s)}

SubsetsUpTo(S, n) == {T \in SUBSET S : Cardinality(T) <= n}

Max2(a, b) == IF a >= b THEN a ELSE b

(***************************************************************************)
(* classifier.py                                                           *)
(***************************************************************************)
HIGH_LOC_THRESHOLD == 300
HIGH_DEPS_THRESHOLD == 5
HIGH_COMPLEXITY_PATTERN_THRESHOLD == 3
UTILITY_LOC_MAX == 100
UTILITY_DEPS_MAX == 3
CRITICAL_PATTERN_MIN == 3

CRITICAL_PATTERNS ==
    << "\\bauth", "\\btoken\\b", "\\bjwt\\b", "\\bsecret\\b", "\\bcredential",
       "\\bpassword\\b", "\\bpermission", "\\baccess.?control", "\\bencrypt",
       "\\bdecrypt", "\\bprivate.?key", "\\bapi.?key", "\\bsession\\b",
       "\\boauth", "\\bsecurity" >>

COMPLEXITY_PATTERNS ==
    << "\\basync\\s+def\\b", "\\bawait\\b", "\\bstate\\b.*\\bmachine\\b",
       "\\bfsm\\b", "\\btransition\\b", "\\bcircuit.?breaker\\b", "\\bretry\\b",
       "\\bbackoff\\b", "\\block\\b", "\\bsemaphore\\b", "\\bmutex\\b",
       "\\bthread\\b", "\\bprocess\\b", "\\bqueue\\b", "\\bcallback\\b",
       "\\bevent.?loop\\b" >>

\* The words a content may contain.  "secret_key" matches no pattern: the
\* underscore is a word character, so \bsecret\b finds no boundary after
\* "secret"; "oauth2" matches \boauth but not \bauth.
ContentWords ==
    { "authenticate", "oauth2", "token", "JWT", "secret_key", "password",
      "encrypt", "await", "retry", "lock" }

\* str.lower() on the words of the vocabulary.
Lower(w) == IF w = "JWT" THEN "jwt" ELSE w

\* re.search(pattern, word, re.IGNORECASE) on a lower-cased vocabulary word.
RegexSearch(pattern, w) ==
    CASE pattern = "\\bauth"       -> w = "authenticate"
      [] pattern = "\\btoken\\b"   -> w = "token"
      [] pattern = "\\bjwt\\b"     -> w = "jwt"
      [] pattern = "\\bpassword\\b" -> w = "password"
      [] pattern = "\\bencrypt"    -> w = "encrypt"
      [] pattern = "\\boauth"      -> w = "oauth2"
      [] pattern = "\\bawait\\b"   -> w = "await"
      [] pattern = "\\bretry\\b"   -> w = "retry"
      [] pattern = "\\block\\b"    -> w = "lock"
      [] OTHER -> FALSE

find_patterns(words, patterns) ==
    LET content_lower == {Lower(w) : w \in words}
    IN  SelectSeq(patterns, LAMBDA p : \E w \in content_lower : RegexSearch(p, w))

primary_critical == << "\\bauth", "\\bsecret\\b", "\\bcredential", "\\bencrypt" >>

\* Mutant: "\\bencrypt" dropped from the primary list and the count test made strict.
has_critical_weight_strict(critical_found) ==
    \/ Len(critical_found) > CRITICAL_PATTERN_MIN
    \/ \E i \in 1..3 : primary_critical[i] \in Range(critical_found)

\* Lines 189-190: has_primary_critical, and the test that selects CRITICAL.
has_critical_weight(critical_found) ==
    LET has_primary_critical ==
            \E i \in 1..Len(primary_critical) :
                primary_critical[i] \in Range(critical_found)
    IN  Len(critical_found) >= CRITICAL_PATTERN_MIN \/ has_primary_critical

\* Mutant: the three thresholds are inclusive / exclusive the wrong way.
is_high_complexity_off_by_one(loc, num_deps, complexity_found) ==
    \/ loc >= HIGH_LOC_THRESHOLD
    \/ num_deps >= HIGH_DEPS_THRESHOLD
    \/ Len(complexity_found) > HIGH_COMPLEXITY_PATTERN_THRESHOLD

\* Lines 196-200: the elif that selects HIGH_COMPLEXITY without critical patterns.
is_high_complexity(loc, num_deps, complexity_found) ==
    \/ loc > HIGH_LOC_THRESHOLD
    \/ num_deps > HIGH_DEPS_THRESHOLD
    \/ Len(complexity_found) >= HIGH_COMPLEXITY_PATTERN_THRESHOLD

\* Line 208: the elif that selects UTILITY.
is_utility(loc, num_deps, complexity_found) ==
    /\ loc < UTILITY_LOC_MAX
    /\ num_deps <= UTILITY_DEPS_MAX
    /\ Len(complexity_found) = 0

\* Mutant: verification is asked for critical files only.
verification_required_critical_only(classification) == classification = "critical"

\* Lines 215-218.
verification_required(classification) ==
    classification \in {"critical", "high-complexity"}

\* classify_from_content, lines 176-229.  content.loc and content.imports are
\* the values count_lines(content) and count_imports(content) return.
classify_from_content(c) ==
    LET loc == c.loc
        num_deps == c.imports
        critical_found == find_patterns(c.words, CRITICAL_PATTERNS)
        complexity_found == find_patterns(c.words, COMPLEXITY_PATTERNS)
        classification ==
            IF Len(critical_found) > 0
            THEN IF has_critical_weight(critical_found)
                 THEN "critical"
                 ELSE "high-complexity"
            ELSE IF is_high_complexity(loc, num_deps, complexity_found)
                 THEN "high-complexity"
            ELSE IF is_utility(loc, num_deps, complexity_found)
                 THEN "utility"
            ELSE "standard"
    IN  [ classification |-> classification,
          lines_of_code |-> loc,
          num_dependencies |-> num_deps,
          critical_patterns_found |-> critical_found,
          complexity_indicators |-> complexity_found,
          verification_required |-> verification_required(classification) ]

\* Bounds of the classifier inputs.
MaxWords == 4
MaxDeps == 6
LocSamples ==
    { 0, 50, UTILITY_LOC_MAX - 1, UTILITY_LOC_MAX, UTILITY_LOC_MAX + 1,
      HIGH_LOC_THRESHOLD - 1, HIGH_LOC_THRESHOLD, HIGH_LOC_THRESHOLD + 1 }

ClassifierInit ==
    /\ content \in [ words : SubsetsUpTo(ContentWords, MaxWords),
                     loc : LocSamples,
                     imports : 0..MaxDeps ]
    /\ result = NoResult

ClassifierIdle ==
    /\ content = [words |-> {}, loc |-> 0, imports |-> 0]
    /\ result = NoResult

ClassifyFromContent ==
    /\ result = NoResult
    /\ result' = classify_from_content(content)
    /\ UNCHANGED content

(***************************************************************************)
(* ast_parser.py: import classification                                    *)
(***************************************************************************)
\* A dotted name is the sequence str.split(".") returns: "os.path" is
\* <<"os", "path">>, the empty string is <<"">> and ".foo" is <<"", "foo">>.
\* <<>> stands for None.
None == <<>>
EmptyString == <<"">>

_COMMON_EXTERNAL_PREFIXES ==
    { "os", "sys", "re", "json", "typing", "collections", "dataclasses",
      "pathlib", "asyncio", "logging", "datetime", "time", "random",
      "functools", "itertools", "contextlib", "abc", "enum", "uuid",
      "hashlib", "base64", "urllib", "http", "email", "html", "xml",
      "sqlite3", "socket", "threading", "multiprocessing", "subprocess",
      "unittest", "pytest", "mock", "requests", "aiohttp", "httpx",
      "pydantic", "sqlalchemy", "django", "flask", "fastapi", "celery",
      "redis", "kafka", "boto3", "numpy", "pandas", "scipy" }

\* The package names of the modelled sources.
PackageNames == { "os", "OS", "_private", "mycompany" }

\* str.lower() and str.startswith("_") on a package name.
LowerName(n) == IF n = "OS" THEN "os" ELSE n
StartsWithUnderscore(n) == n = "_private"

\* Mutant: the top-level name is looked up as it is written.
_is_likely_internal_module_as_written(module) ==
    IF module = EmptyString THEN FALSE
    ELSE IF StartsWithUnderscore(module[1]) THEN TRUE
    ELSE module[1] \notin _COMMON_EXTERNAL_PREFIXES

\* _is_likely_internal_module, lines 323-350.
_is_likely_internal_module(module) ==
    IF module = EmptyString THEN FALSE
    ELSE LET top_level == module[1]
         IN  IF StartsWithUnderscore(top_level) THEN TRUE
             ELSE IF LowerName(top_level) \in _COMMON_EXTERNAL_PREFIXES THEN FALSE
             ELSE IF Len(module) >= 2 /\ module[1] = "" THEN TRUE
             ELSE TRUE

\* The ImportInfo entries parse_imports appends for one node, lines 358-378.
\* An ast.ImportFrom node keeps the leading dots in node.level; node.module
\* is the name after the dots, or None when there is none.
import_infos(node) ==
    IF node.type = "Import"
    THEN [ i \in 1..Len(node.names) |->
             [ module |-> node.names[i].name,
               names |-> << IF node.names[i].asname # None
                            THEN node.names[i].asname
                            ELSE node.names[i].name >>,
               is_from_import |-> FALSE,
               is_internal |-> _is_likely_internal_module(node.names[i].name) ] ]
    ELSE LET module == IF node.module # None THEN node.module ELSE EmptyString
         IN  << [ module |-> module,
                  names |-> [ i \in 1..Len(node.names) |-> node.names[i].name ],
                  is_from_import |-> TRUE,
                  is_internal |-> _is_likely_internal_module(module) ] >>

RECURSIVE parse_imports(_)
\* parse_imports, lines 353-380: the nodes in ast.walk order.
parse_imports(nodes) ==
    IF nodes = <<>> THEN <<>>
    ELSE import_infos(Head(nodes)) \o parse_imports(Tail(nodes))

\* Bounds of the parser inputs.
MaxParts == 2
MaxLevel == 2
MaxImports == 1

DottedNames == UNION { [1..n -> PackageNames] : n \in 1..MaxParts }

Aliases == { [name |-> d, asname |-> a] : d \in DottedNames, a \in {None, <<"alias">>} }

\* import a.b [as alias]  /  from [.]*[a.b] import foo[, bar]
ImportNodes ==
    { [type |-> "Import", names |-> <<al>>] : al \in Aliases }
    \cup
    { [type |-> "ImportFrom", module |-> m, level |-> l, names |-> ns] :
        m \in DottedNames \cup {None}, l \in 0..MaxLevel,
        ns \in { << [name |-> <<"foo">>, asname |-> None] >>,
                 << [name |-> <<"foo">>, asname |-> None],
                    [name |-> <<"bar">>, asname |-> <<"alias">>] >> } }

\* `from import foo` is no Python: without dots a module name is required.
ValidImportNode(node) ==
    node.type = "ImportFrom" => (node.level > 0 \/ node.module # None)

\* A function signature as it is declared: the parameters from left to
\* right, each with its kind and with or without a default.  The parameter
\* declared at position i is named ParamNames[i] and its default, when it
\* has one, is the expression DefaultExprs[i].
ParamNames == <<"a", "b", "c", "d">>
DefaultExprs == <<"1_000", "None", "x + 1", "()">>
ParamKinds == <<"posonly", "pos", "vararg", "kwonly", "kwarg">>

KindRank(kind) == CHOOSE r \in 1..Len(ParamKinds) : ParamKinds[r] = kind

\* The signatures Python accepts: positional-only parameters, positional
\* parameters, *args, keyword-only parameters, **kwargs, in this order; no
\* positional parameter without default after one with a default; no default
\* for *args and **kwargs.
ValidSignature(sig) ==
    /\ \A i, j \in 1..Len(sig) : i < j => KindRank(sig[i].kind) <= KindRank(sig[j].kind)
    /\ \A kind \in {"vararg", "kwarg"} :
          Cardinality({i \in 1..Len(sig) : sig[i].kind = kind}) <= 1
    /\ \A i \in 1..Len(sig) : sig[i].kind \in {"vararg", "kwarg"} => ~sig[i].has_default
    /\ \A i, j \in 1..Len(sig) :
          (i < j /\ sig[i].kind \in {"posonly", "pos"} /\ sig[j].kind \in {"posonly", "pos"}
           /\ sig[i].has_default) => sig[j].has_default

\* The positions of the parameters of some kinds, from left to right.
Positions(sig, kinds) ==
    SelectSeq([i \in 1..Len(sig) |-> i], LAMBDA i : sig[i].kind \in kinds)

\* ast.arg and the ast.arguments node Python builds for a signature:
\* defaults holds the defaults of the positional-only and positional
\* parameters together; kw_defaults holds one entry per keyword-only
\* parameter, None without default.
ast_arg(i) == [arg |-> ParamNames[i]]

ast_arguments(sig) ==
    LET named(kinds) ==
            [k \in 1..Len(Positions(sig, kinds)) |-> ast_arg(Positions(sig, kinds)[k])]
        with_default ==
            SelectSeq(Positions(sig, {"posonly", "pos"}), LAMBDA i : sig[i].has_default)
        keyword_only == Positions(sig, {"kwonly"})
    IN  [ posonlyargs |-> named({"posonly"}),
          args |-> named({"pos"}),
          vararg |-> named({"vararg"}),
          kwonlyargs |-> named({"kwonly"}),
          kw_defaults |-> [k \in 1..Len(keyword_only) |->
                              IF sig[keyword_only[k]].has_default
                              THEN <<DefaultExprs[keyword_only[k]]>> ELSE None],
          kwarg |-> named({"kwarg"}),
          defaults |-> [k \in 1..Len(with_default) |-> <<DefaultExprs[with_default[k]]>>] ]

\* ast.unparse on the default expressions: 1_000 is written 1000.
unparse(expr) == IF expr = <<"1_000">> THEN <<"1000">> ELSE expr

\* get_default_str, lines 180-187.
get_default_str(node) == IF node = None THEN None ELSE unparse(node)

\* A statement node: its type, its name (the target of an assignment), the
\* ast.arguments of a function and the def, class and assignment statements
\* of its body.  A definition is named by its place in the tree, <<2, 1>>
\* being the first statement of the second statement of the module, so that
\* no two definitions share a name.
FunctionTypes == {"FunctionDef", "AsyncFunctionDef"}

function_def(type, name, sig, body) ==
    [type |-> type, name |-> name, args |-> ast_arguments(sig), body |-> body]

\* parse_function, lines 220-273: name, parameters and is_async of the
\* FunctionInfo.  The indexes of the code start at 0.
parse_function(node) ==
    LET args == node.args
        num_defaults == Len(args.defaults)
        num_args == Len(args.args)
        non_default_args == num_args - num_defaults
        positional ==
            [ k \in 1..num_args |->
                [ name |-> args.args[k].arg,
                  default |->
                      IF k - 1 >= non_default_args
                      THEN get_default_str(args.defaults[(k - 1) - non_default_args + 1])
                      ELSE None ] ]
        num_kw_defaults == Len(args.kw_defaults)
        keyword_only ==
            [ k \in 1..Len(args.kwonlyargs) |->
                [ name |-> args.kwonlyargs[k].arg,
                  default |->
                      IF k - 1 < num_kw_defaults /\ args.kw_defaults[k] # None
                      THEN get_default_str(args.kw_defaults[k])
                      ELSE None ] ]
    IN  [ name |-> node.name,
          parameters |-> positional \o keyword_only,
          is_async |-> node.type = "AsyncFunctionDef" ]

\* [f(item) for item in items if isinstance(item, types)]
parse_each(items, types, f(_)) ==
    LET selected(chosen) == [k \in 1..Len(chosen) |-> f(chosen[k])]
    IN  selected(SelectSeq(items, LAMBDA item : item.type \in types))

target_id(node) == node.name

\* parse_class, lines 276-307: name, methods and class_variables of the
\* ClassInfo.
parse_class(node) ==
    [ name |-> node.name,
      methods |-> parse_each(node.body, FunctionTypes, parse_function),
      class_variables |-> parse_each(node.body, {"Assign"}, target_id) ]

\* The statements of a body and of the bodies in it, in source order.
RECURSIVE walk(_)
walk(body) ==
    IF body = <<>> THEN <<>>
    ELSE <<Head(body)>> \o walk(Head(body).body) \o walk(Tail(body))

\* find_exported_symbols, lines 428-444.  No modelled name starts with "_".
find_exported_symbols(body) ==
    parse_each(body, {"ClassDef", "Assign"} \cup FunctionTypes, target_id)

\* str.isupper() of a name.  The name of a statement is its place in the
\* tree, <<2, 1>>; a name written in upper case has a 0 in front, <<0, 2>>.
isupper(name) == Head(name) = 0

\* find_constants, lines 410-424.
find_constants(body) ==
    parse_each(SelectSeq(body, LAMBDA node : node.type \in {"Assign", "AnnAssign"}
                                             /\ isupper(target_id(node))),
               {"Assign", "AnnAssign"}, target_id)

\* parse_content, lines 490-509: the loop over tree.body.
parse_classes(body) == parse_each(body, {"ClassDef"}, parse_class)

\* Mutant: every function definition of the tree is listed.
parse_functions_of_walk(body) == parse_each(walk(body), FunctionTypes, parse_function)

parse_functions(body) == parse_each(body, FunctionTypes, parse_function)

\* Lines 100-169: the tags in the order of the dict, each with its patterns.
EXTERNAL_CALL_PATTERNS ==
    << [ call_type |-> "database",
         patterns |->
             << "\\.find_one\\(", "\\.find_many\\(", "\\.find\\(",
                "\\.insert_one\\(", "\\.insert_many\\(",
                "\\.update_one\\(", "\\.update_many\\(",
                "\\.delete_one\\(", "\\.delete_many\\(", "\\.aggregate\\(",
                "\\.execute\\(", "cursor\\.", "collection\\.", "motor\\.",
                "beanie\\.", "pymongo\\.", "mongodb" >> ],
       [ call_type |-> "network",
         patterns |->
             << "aiohttp\\.", "httpx\\.", "requests\\.", "\\.fetch\\(",
                "session\\.get\\(", "session\\.post\\(",
                "session\\.put\\(", "session\\.delete\\(",
                "session\\.patch\\(", "client\\.get\\(",
                "client\\.post\\(", "ClientSession\\(", "AsyncClient\\(",
                "Response\\(" >> ],
       [ call_type |-> "filesystem",
         patterns |->
             << "\\bopen\\(", "\\.read\\(", "\\.write\\(",
                "\\.read_text\\(", "\\.write_text\\(", "\\.mkdir\\(",
                "\\.rmdir\\(", "\\.unlink\\(", "os\\.remove\\(",
                "shutil\\." >> ],
       [ call_type |-> "messaging",
         patterns |->
             << "\\.publish\\(", "\\.send\\(", "\\.consume\\(",
                "\\.subscribe\\(", "channel\\.", "queue\\.", "topic\\.",
                "kafka\\.", "redis\\.pub", "celery\\.", "kombu\\." >> ],
       [ call_type |-> "ipc",
         patterns |->
             << "subprocess\\.", "multiprocessing\\.", "shared_memory",
                "\\.socket\\(", "Popen\\(", "pipe\\(", "mmap\\." >> ] >>

\* re.search(pattern, statement, re.IGNORECASE): the patterns found in the
\* statements the modelled lines are written with.
PatternsFound(statement) ==
    CASE statement = "cursor.execute(sql)" ->
            { "\\.execute\\(", "cursor\\." }
      [] statement = "db.find_one(q)" ->
            { "\\.find_one\\(" }
      [] statement = "session.get(url)" ->
            { "session\\.get\\(" }
      [] statement = "queue.send(msg)" ->
            { "\\.send\\(", "queue\\." }
      [] statement = "subprocess.Popen(cmd)" ->
            { "subprocess\\.", "Popen\\(" }
      [] statement = "REDIS.PUBLISH(x)" ->
            { "\\.publish\\(", "redis\\.pub" }
      [] statement = "requests.get(u).read()" ->
            { "requests\\.", "\\.read\\(" }
      [] statement = "open(path)" ->
            { "\\bopen\\(" }
      [] statement = "cursor.execute(" ->
            { "\\.execute\\(", "cursor\\." }
      [] OTHER -> {}

\* re.search(pattern, line, re.IGNORECASE), line 398.  A line is the
\* sequence of its statements; no pattern matches across two statements.
search(pattern, line) == \E i \in 1..Len(line) : pattern \in PatternsFound(line[i])

\* Mutant: the loop over the patterns of a tag goes on after a match.
every_match(patterns, line) == SelectSeq(patterns, LAMBDA p : search(p, line))

\* Lines 397-407: the loop over the patterns of one tag, left at the first
\* match.
first_match(patterns, line) ==
    LET first_of(found) == IF found = <<>> THEN <<>> ELSE <<Head(found)>>
    IN  first_of(SelectSeq(patterns, LAMBDA p : search(p, line)))

\* Lines 396-407: the loop over the tags for one line.
RECURSIVE calls_of_line(_, _, _)
calls_of_line(tags, line, line_num) ==
    IF tags = <<>> THEN <<>>
    ELSE LET call_site(patterns) ==
                 [ k \in 1..Len(patterns) |->
                     [ call_type |-> Head(tags).call_type,
                       pattern |-> patterns[k],
                       line_number |-> line_num ] ]
         IN  call_site(first_match(Head(tags).patterns, line))
             \o calls_of_line(Tail(tags), line, line_num)

\* find_external_calls, lines 383-409.
RECURSIVE calls_from(_, _)
calls_from(lines_of_content, line_num) ==
    IF line_num > Len(lines_of_content) THEN <<>>
    ELSE calls_of_line(EXTERNAL_CALL_PATTERNS, lines_of_content[line_num], line_num)
         \o calls_from(lines_of_content, line_num + 1)

find_external_calls(lines_of_content) == calls_from(lines_of_content, 1)

NotParsed == [parsed |-> FALSE]

ParserInit ==
    /\ tree \in UNION { [1..n -> {node \in ImportNodes : ValidImportNode(node)}] :
                          n \in 0..MaxImports }
    /\ module_body = <<>>
    /\ content_lines = <<>>
    /\ parse_result = NotParsed

ParserIdle ==
    /\ tree = <<>>
    /\ module_body = <<>>
    /\ content_lines = <<>>
    /\ parse_result = NotParsed

\* Bound of the parsed signatures.
MaxParams == 3

Signatures ==
    { sig \in UNION { [1..n -> [kind : Range(ParamKinds), has_default : BOOLEAN]] :
                        n \in 0..MaxParams } :
        ValidSignature(sig) }

\* A module of one function.
SignatureInit ==
    /\ tree = <<>>
    /\ content_lines = <<>>
    /\ \E type \in FunctionTypes, sig \in Signatures :
          module_body = << function_def(type, <<1>>, sig, <<>>) >>
    /\ parse_result = NotParsed

\* The statements of the parsed modules, without their names: assignments,
\* functions, a function in a function, classes with methods and variables,
\* a method with a function in it, and a function under a module-level if.
Stmt(type, body) == [type |-> type, body |-> body]

StatementShapes ==
    { Stmt("Assign", <<>>),
      Stmt("FunctionDef", <<>>),
      Stmt("AsyncFunctionDef", <<>>),
      Stmt("FunctionDef", << Stmt("FunctionDef", <<>>) >>),
      Stmt("ClassDef", << Stmt("FunctionDef", <<>>) >>),
      Stmt("ClassDef", << Stmt("Assign", <<>>),
                          Stmt("AsyncFunctionDef", << Stmt("FunctionDef", <<>>) >>) >>),
      Stmt("If", << Stmt("FunctionDef", <<>>) >>) }

\* The node of a statement at a place of the tree.
RECURSIVE declare(_, _)
declare(shape, path) ==
    [ type |-> shape.type, name |-> path, args |-> ast_arguments(<<>>),
      body |-> [i \in 1..Len(shape.body) |-> declare(shape.body[i], Append(path, i))] ]

\* Bound of the parsed modules.
MaxStatements == 3

StructureInit ==
    /\ tree = <<>>
    /\ content_lines = <<>>
    /\ \E shapes \in UNION { [1..n -> StatementShapes] : n \in 0..MaxStatements } :
          module_body = [i \in 1..Len(shapes) |-> declare(shapes[i], <<i>>)]
    /\ parse_result = NotParsed

\* The lines of the scanned contents.
CallLines ==
    { <<>>,
      <<"x = 1">>,
      <<"reopen(path)">>,
      <<"cursor.execute(sql)">>,
      <<"db.find_one(q)">>,
      <<"queue.send(msg)", "session.get(url)">>,
      <<"subprocess.Popen(cmd)", "open(path)", "REDIS.PUBLISH(x)">>,
      <<"requests.get(u).read()", "cursor.execute(sql)">> }

\* Bound of the scanned contents.
MaxCallLines == 3

CallsInit ==
    /\ tree = <<>>
    /\ module_body = <<>>
    /\ content_lines \in UNION { [1..n -> CallLines] : n \in 0..MaxCallLines }
    /\ parse_result = NotParsed

\* The statements no Python parser accepts.
InvalidStatements == { "def f(:", "cursor.execute(" }

\* ast.parse(content), line 490, raises SyntaxError on a text with such a
\* statement and returns the tree of any other.
ast_parse_raises(lines_of_content) ==
    \E k \in 1..Len(lines_of_content) :
        \E i \in 1..Len(lines_of_content[k]) :
            lines_of_content[k][i] \in InvalidStatements

\* Mutant: the error is caught and the text is scanned all the same.
scan_after_syntax_error(lines_of_content) ==
    [ parsed |-> TRUE, classes |-> <<>>, functions |-> <<>>,
      exported_symbols |-> <<>>,
      external_calls |-> find_external_calls(lines_of_content),
      imports |-> <<>>, constants |-> <<>> ]

\* parse_content has no handler: the SyntaxError of line 490 leaves the
\* function and the caller gets no ParseResult.
raise_syntax_error(lines_of_content) ==
    [parsed |-> FALSE, raised |-> "SyntaxError"]

\* parse_content, lines 479-509.  import_nodes and body are the tree
\* ast.parse returns when it returns one.
parse_content(import_nodes, body, lines_of_content) ==
    IF ast_parse_raises(lines_of_content)
    THEN raise_syntax_error(lines_of_content)
    ELSE [ parsed |-> TRUE,
           classes |-> parse_classes(body),
           functions |-> parse_functions(body),
           exported_symbols |-> find_exported_symbols(body),
           external_calls |-> find_external_calls(lines_of_content),
           imports |-> parse_imports(import_nodes),
           constants |-> find_constants(body) ]

\* Texts with and without a syntax error.  A text that does not parse has
\* no tree.
InvalidLines == { <<"def f(:">>, <<"x = 1", "cursor.execute(">> }

InvalidInit ==
    /\ tree = <<>>
    /\ module_body = <<>>
    /\ content_lines \in UNION { [1..n -> CallLines \cup InvalidLines] :
                                   n \in 0..MaxCallLines }
    /\ parse_result = NotParsed

ParseContent ==
    /\ parse_result = NotParsed
    /\ parse_result' = parse_content(tree, module_body, content_lines)
    /\ UNCHANGED <<tree, module_body, content_lines>>

(***************************************************************************)
(* measure_complexity.py: ComplexityAnalyzer and NestingAnalyzer           *)
(***************************************************************************)
\* The subtree of a function is a sequence of nodes; node i hangs under node
\* t[i].parent, a smaller index, or under the FunctionDef itself (parent 0).
\* size is len(node.values) of a BoolOp and len(node.ifs) of a comprehension.
\* ast.NodeVisitor.generic_visit visits the children of a node in order.
\* Mutant: the statements of the else part are not visited.
body_children(t, i) ==
    SelectSeq([j \in 1..Len(t) |-> j],
              LAMBDA j : t[j].parent = i /\ t[j].field # "orelse")

Children(t, i) == SelectSeq([j \in 1..Len(t) |-> j], LAMBDA j : t[j].parent = i)

RECURSIVE visit(_, _, _)
RECURSIVE visit_all(_, _, _)

\* NodeVisitor.generic_visit: visit every child, threading the counter.
generic_visit(t, i, complexity) == visit_all(t, Children(t, i), complexity)

\* Mutant: the handler counts the node and forgets generic_visit.
visit_branch_no_descent(t, i, complexity) == complexity + 1

\* visit_If, visit_While, visit_For, visit_ExceptHandler, visit_With and
\* visit_Assert, lines 60-82: the six handlers have the same body.
visit_branch(t, i, complexity) == generic_visit(t, i, complexity + 1)

\* visit_BoolOp, lines 84-87.
visit_BoolOp(t, i, complexity) ==
    generic_visit(t, i, complexity + (t[i].size - 1))

\* visit_comprehension, lines 89-93.
visit_comprehension(t, i, complexity) ==
    LET counted == complexity + 1
    IN  generic_visit(t, i, IF t[i].size > 0 THEN counted + t[i].size ELSE counted)

BranchTypes == {"If", "While", "For", "ExceptHandler", "With", "Assert"}

\* NodeVisitor.visit: dispatch on the node type, generic_visit without handler.
visit(t, i, complexity) ==
    IF t[i].type \in BranchTypes THEN visit_branch(t, i, complexity)
    ELSE IF t[i].type = "BoolOp" THEN visit_BoolOp(t, i, complexity)
    ELSE IF t[i].type = "comprehension" THEN visit_comprehension(t, i, complexity)
    ELSE generic_visit(t, i, complexity)

visit_all(t, nodes, complexity) ==
    IF nodes = <<>> THEN complexity
    ELSE visit_all(t, Tail(nodes), visit(t, Head(nodes), complexity))

\* calculate_complexity, lines 116-120; the base complexity is 1 (line 58).
\* A FunctionDef has no handler: its children are visited by generic_visit.
calculate_complexity(t) == generic_visit(t, 0, 1)

RECURSIVE nesting_visit(_, _, _)
RECURSIVE nesting_visit_all(_, _, _)

nesting_generic_visit(t, i, a) == nesting_visit_all(t, Children(t, i), a)

\* Mutant: current_depth is not decremented when the block is left.
_visit_nested_no_exit(t, i, a) ==
    LET entered == [ current_depth |-> a.current_depth + 1,
                     max_depth |-> Max2(a.max_depth, a.current_depth + 1) ]
    IN  nesting_generic_visit(t, i, entered)

\* NestingAnalyzer._visit_nested, lines 103-107.
_visit_nested(t, i, a) ==
    LET entered == [ current_depth |-> a.current_depth + 1,
                     max_depth |-> Max2(a.max_depth, a.current_depth + 1) ]
        visited == nesting_generic_visit(t, i, entered)
    IN  [visited EXCEPT !.current_depth = @ - 1]

\* Lines 109-113: the node types bound to _visit_nested.
NestedTypes == {"If", "While", "For", "With", "Try"}

nesting_visit(t, i, a) ==
    IF t[i].type \in NestedTypes THEN _visit_nested(t, i, a)
    ELSE nesting_generic_visit(t, i, a)

nesting_visit_all(t, nodes, a) ==
    IF nodes = <<>> THEN a
    ELSE nesting_visit_all(t, Tail(nodes), nesting_visit(t, Head(nodes), a))

\* NestingAnalyzer.__init__ (lines 99-101) and analyzer.visit(func_node).
NewNestingAnalyzer == [max_depth |-> 0, current_depth |-> 0]
nesting_analysis(t) == nesting_generic_visit(t, 0, NewNestingAnalyzer)

\* calculate_max_nesting, lines 123-127.
calculate_max_nesting(t) == nesting_analysis(t).max_depth

\* Bounds of the function subtrees.
MaxNodes == 3
BoolOpSizes == {2, 3}
ComprehensionIfs == {0, 1, 2}

NodeShapes ==
    { [type |-> ty, size |-> 0] :
        ty \in BranchTypes \cup NestedTypes \cup {"Expr"} }
    \cup { [type |-> "BoolOp", size |-> n] : n \in BoolOpSizes }
    \cup { [type |-> "comprehension", size |-> n] : n \in ComprehensionIfs }

NoMetrics == [analyzed |-> FALSE]

ComplexityInit ==
    /\ func_node = <<>>
    /\ analyzer = NewNestingAnalyzer
    /\ metrics = NoMetrics

ComplexityIdle ==
    /\ func_node = <<>>
    /\ analyzer = NewNestingAnalyzer
    /\ metrics = NoMetrics

\* ast.parse (line 158) grows the subtree of the function: one more node
\* under the FunctionDef or under a node already there.
AddNode ==
    /\ metrics = NoMetrics
    /\ Len(func_node) < MaxNodes
    /\ \E sh \in NodeShapes, p \in 0..Len(func_node) :
          func_node' = Append(func_node,
                              [type |-> sh.type, size |-> sh.size, parent |-> p])
    /\ UNCHANGED <<analyzer, metrics>>

\* analyze_file, lines 168-175: the FunctionMetrics of one function.
AnalyzeFunction ==
    /\ metrics = NoMetrics
    /\ analyzer' = nesting_analysis(func_node)
    /\ metrics' = [ analyzed |-> TRUE,
                    complexity |-> calculate_complexity(func_node),
                    max_nesting |-> calculate_max_nesting(func_node) ]
    /\ UNCHANGED func_node

\* Bound: the if statements of a function as it is written.
MaxBranches == 3

\* How the if statements follow each other in the text: each as the elif
\* of the one before, each alone in the else of the one before, each in
\* the body of the one before, or one after the other.
IfLayouts == { "elif", "else-if", "nested", "sequence" }

\* The statements of a branch that open no block.
SimpleStatements == { "Expr", "Assert", "Return" }

\* ast.parse (line 158) of such a function: the j-th If is node 2j-1 and
\* its statement node 2j.  The parser puts an elif, like an if alone in an
\* else, into the orelse of the If before; field is the field of the parent
\* that holds the node.
ast_parse_ifs(layout, statements, has_else) ==
    LET branches == Len(statements)
        if_node(j) ==
            [ type |-> "If", size |-> 0,
              parent |-> IF j = 1 \/ layout = "sequence" THEN 0 ELSE 2 * j - 3,
              field |-> IF j > 1 /\ layout \in {"elif", "else-if"}
                        THEN "orelse" ELSE "body" ]
        statement_node(j) ==
            [ type |-> statements[j], size |-> 0, parent |-> 2 * j - 1,
              field |-> "body" ]
        else_nodes ==
            IF has_else
            THEN << [ type |-> "Expr", size |-> 0, parent |-> 2 * branches - 1,
                      field |-> "orelse" ] >>
            ELSE <<>>
    IN  [n \in 1..(2 * branches) |->
            IF n % 2 = 1 THEN if_node((n + 1) \div 2) ELSE statement_node(n \div 2)]
        \o else_nodes

\* A function whose statements are if statements without further blocks.
ChainInit ==
    /\ \E layout \in IfLayouts, has_else \in BOOLEAN, branches \in 1..MaxBranches :
          \E statements \in [1..branches -> SimpleStatements] :
              func_node = ast_parse_ifs(layout, statements, has_else)
    /\ analyzer = NewNestingAnalyzer
    /\ metrics = NoMetrics

(***************************************************************************)
(* classifier.py: count_lines                                              *)
(***************************************************************************)
\* A line is the sequence of its lexical pieces: "code" (any text that is no
\* quote and no hash), "#", a triple double quote DQ3 and a triple single
\* quote SQ3.  The empty sequence is a blank (or whitespace-only) line.
DQ3 == "\"\"\""
SQ3 == "'''"

LineShapes ==
    { <<>>,                     \* blank
      <<"code">>,               \* x = 1
      <<"code", "#", "code">>,  \* x = 1  # note
      <<"#", "code">>,          \* # note
      <<"#", DQ3>>,             \* # see """ in the docs
      <<DQ3, "code">>,          \* """Summary      (or:  text""")
      <<DQ3, "code", DQ3>>,     \* """Summary."""
      <<SQ3, "code">>,          \* '''Summary      (or:  text''')
      <<"code", DQ3>> }         \* x = """         (or:  text""")

\* str.count(sub) on a stripped line.
Count(line, piece) == Cardinality({i \in 1..Len(line) : line[i] = piece})

\* The for loop body of count_lines, lines 100-127, on one line: the new
\* (in_docstring, code_lines).
count_lines_body(line, docstring, count) ==
    LET unchanged == [in_docstring |-> docstring, code_lines |-> count]
        triple_double == Count(line, DQ3)
        triple_single == Count(line, SQ3)
    IN  IF line = <<>> THEN unchanged
        ELSE IF (triple_double > 0 \/ triple_single > 0)
                /\ (triple_double = 2 \/ triple_single = 2)
             THEN unchanged
        ELSE IF (triple_double > 0 \/ triple_single > 0)
                /\ (triple_double = 1 \/ triple_single = 1)
             THEN [in_docstring |-> ~docstring, code_lines |-> count]
        ELSE IF docstring THEN unchanged
        ELSE IF line[1] = "#" THEN unchanged
        ELSE [in_docstring |-> docstring, code_lines |-> count + 1]

\* Bound of the counted contents.
MaxLines == 3

CountInit ==
    /\ lines = <<>>
    /\ line_no = 0
    /\ in_docstring = FALSE
    /\ code_lines = 0
    /\ count_pc = "input"

CountIdle == CountInit

\* The caller's content: one more line of text.
AppendLine ==
    /\ count_pc = "input"
    /\ Len(lines) < MaxLines
    /\ \E line \in LineShapes : lines' = Append(lines, line)
    /\ UNCHANGED <<line_no, in_docstring, code_lines, count_pc>>

\* count_lines, lines 96-98.
CountLinesEnter ==
    /\ count_pc = "input"
    /\ count_pc' = "loop"
    /\ line_no' = 0
    /\ code_lines' = 0
    /\ in_docstring' = FALSE
    /\ UNCHANGED lines

\* count_lines, lines 100-127: one iteration of the loop.
CountLinesStep ==
    /\ count_pc = "loop"
    /\ line_no < Len(lines)
    /\ LET after == count_lines_body(lines[line_no + 1], in_docstring, code_lines)
       IN  /\ in_docstring' = after.in_docstring
           /\ code_lines' = after.code_lines
    /\ line_no' = line_no + 1
    /\ UNCHANGED <<lines, count_pc>>

\* count_lines, line 129.
CountLinesReturn ==
    /\ count_pc = "loop"
    /\ line_no = Len(lines)
    /\ count_pc' = "done"
    /\ UNCHANGED <<lines, line_no, in_docstring, code_lines>>

(***************************************************************************)
(* comment_rewriter.py: classify_comment and suggest_rewrite               *)
(***************************************************************************)
\* A string is the sequence of its units.  A comment token is "#" followed by
\* its chunks (words or phrases, one space between two of them): "# TODO: x"
\* is <<"#", "TODO:", "x">>, and text = raw.lstrip("#").strip() is the chunks.
\* A source line is its indentation (SP units), its code tokens, one SP before
\* an inline comment and the comment token.
HASH == "#"
SP == " "
NL == "\n"
FF == "\f"

DesignChunk == "DESIGN DECISION:"
ContextChunk == "Context: [Add why this is deferred and conditions for completion]"
WhyTemplate == "WHY: [Explain the reasoning behind this code, not what it does]"

\* The chunks the analysed comments are written with.
CommentChunks ==
    { "TODO:", "hack", "because", "see also", "algorithm", "---", "return",
      "increment", "x", "=" }

\* The \w+ runs of a chunk, lower-cased.
Words(c) ==
    CASE c = "TODO:" -> <<"todo">>
      [] c = "see also" -> <<"see", "also">>
      [] c \in {"---", "="} -> <<>>
      [] c = DesignChunk -> <<"design", "decision">>
      [] c = ContextChunk ->
            << "context", "add", "why", "this", "is", "deferred", "and",
               "conditions", "for", "completion" >>
      [] c = WhyTemplate ->
            << "why", "explain", "the", "reasoning", "behind", "this", "code",
               "not", "what", "it", "does" >>
      [] OTHER -> <<c>>

\* The chunk is one run of word characters (\w+) and nothing else.
IsWordChunk(c) == Words(c) = <<c>>

\* len() of a chunk and of a text (chunks joined by one space).
ChunkLen(c) ==
    CASE c = "TODO:" -> 5
      [] c = "hack" -> 4
      [] c = "because" -> 7
      [] c = "see also" -> 8
      [] c = "algorithm" -> 9
      [] c = "---" -> 3
      [] c = "return" -> 6
      [] c = "increment" -> 9
      [] c = DesignChunk -> 16
      [] c = ContextChunk -> 65
      [] c = WhyTemplate -> 63
      [] OTHER -> 1

RECURSIVE TextLen(_)
TextLen(text) ==
    IF text = <<>> THEN 0
    ELSE IF Len(text) = 1 THEN ChunkLen(text[1])
    ELSE ChunkLen(Head(text)) + 1 + TextLen(Tail(text))

HasWord(text, w) == \E i \in 1..Len(text) : w \in Range(Words(text[i]))

\* Lines 117-126, 128-136, 138-149, 151-161: the pattern lists.
_DEBT_PATTERNS ==
    << "\\bTODO\\b", "\\bFIXME\\b", "\\bXXX\\b", "\\bHACK\\b", "\\bBUG\\b",
       "\\bWORKAROUND\\b", "\\bTEMP\\b", "\\bTEMPORARY\\b" >>

_CHECKLIST_PATTERNS ==
    << "\\bif you (?:change|modify|update)\\b", "\\bremember to\\b",
       "\\bdon'?t forget\\b", "\\balso update\\b",
       "\\bmust be kept in sync\\b", "\\bsee also\\b", "\\bwhen changing\\b" >>

_WHY_PATTERNS ==
    << "\\bbecause\\b", "\\bthe reason\\b", "\\bwe (?:do|use) this\\b",
       "\\bthis is (?:necessary|needed|required)\\b", "\\bto avoid\\b",
       "\\bto prevent\\b", "\\bworkaround for\\b", "\\bdue to\\b",
       "\\brequired by\\b", "\\bhistorically\\b" >>

_TEACHER_PATTERNS ==
    << "\\balgorithm\\b", "\\bprotocol\\b", "\\bformula\\b", "\\bequation\\b",
       "\\btheorem\\b", "\\bRFC\\s*\\d+\\b", "\\bsee (?:http|https)://\\b",
       "\\brefer to\\b", "\\bexplained in\\b" >>

\* pattern.search(text), re.IGNORECASE, on a text of the chunks above.  The
\* phrases of the other patterns occur in no chunk and across no two chunks.
PatternSearch(pattern, text) ==
    CASE pattern = "\\bTODO\\b" -> HasWord(text, "todo")
      [] pattern = "\\bHACK\\b" -> HasWord(text, "hack")
      [] pattern = "\\bsee also\\b" -> \E i \in 1..Len(text) : text[i] = "see also"
      [] pattern = "\\bbecause\\b" -> HasWord(text, "because")
      [] pattern = "\\balgorithm\\b" -> HasWord(text, "algorithm")
      [] OTHER -> FALSE

AnySearch(patterns, text) ==
    \E k \in 1..Len(patterns) : PatternSearch(patterns[k], text)

\* Line 172: the keywords of the first code pattern.
Keywords ==
    { "def", "class", "import", "from", "if", "for", "while", "try", "except",
      "with", "return", "yield", "raise" }

\* Lines 171-177: _CODE_PATTERNS[k].match(raw_text).  k = 1: keyword and
\* white space; 2: \w+\s*[=\(]; 3: \w+\.\w+\(; 4: @\w+; 5: \w+:\s*\w+\s*[=,].
\* No chunk holds a dot call, a decorator or a comma.
CodePatternMatch(k, raw) ==
    /\ Len(raw) >= 2
    /\ raw[1] = HASH
    /\ CASE k = 1 -> Len(raw) >= 3 /\ raw[2] \in Keywords
         [] k = 2 -> Len(raw) >= 3 /\ IsWordChunk(raw[2]) /\ raw[3] \in {"=", "("}
         [] k = 5 -> /\ Len(raw) >= 4
                     /\ raw[2] = "TODO:"
                     /\ IsWordChunk(raw[3])
                     /\ raw[4] = "="
         [] OTHER -> FALSE

\* Lines 180-189: _TRIVIAL_INDICATORS[k], the comment phrase searched in
\* raw_text (ignoring case) ...
IndicatorWords == <<"increment", "decrement", "return", "loop", "import",
                    "set", "call", "if">>

CommentIndicatorSearch(k, raw) ==
    \E i \in 1..Len(raw) :
        /\ raw[i] = HASH
        /\ i < Len(raw)
        /\ raw[i + 1] = IndicatorWords[k]
        /\ k \in 6..8 => (i + 2 <= Len(raw) /\ Words(raw[i + 2]) # <<>>)

\* ... and the code pattern searched in the whole line (case-sensitive).
CodeIndicatorSearch(k, line) ==
    \E i \in 1..Len(line) :
        CASE k = 1 -> \/ line[i] = "++"
                      \/ line[i] = "+=" /\ i < Len(line) /\ line[i + 1] = "1"
          [] k = 2 -> \/ line[i] \in {"--", "---"}
                      \/ line[i] = "-=" /\ i < Len(line) /\ line[i + 1] = "1"
          [] k = 3 -> line[i] = "return"
          [] k = 4 -> line[i] \in {"for", "while"}
          [] k = 5 -> line[i] = "import"
          [] k = 6 -> line[i] \in {"=", "+=", "-="}
          [] k = 7 -> line[i] = "("
          [] k = 8 -> line[i] = "if"

\* Lines 163-168: _GUIDE_PATTERNS[k].match(text).  k = 1: a separator line;
\* 2: "#+ "; 3: "section"; 4: "[/*]+ ".  text never starts with "#".
GuidePatternMatch(k, text) ==
    CASE k = 1 -> Len(text) = 1 /\ text[1] \in {"---", "="}
      [] k = 3 -> Len(text) >= 1 /\ text[1] \in {"section", "section:"}
      [] OTHER -> FALSE

Outcome(type, action) == [comment_type |-> type, classification |-> action]

\* The conditions of the checks of classify_comment, lines 354-419.
is_backup(raw_text) == \E k \in 1..5 : CodePatternMatch(k, raw_text)
is_debt(text) == AnySearch(_DEBT_PATTERNS, text)
\* Mutant: the position of the comment is not looked at.
is_trivial_anywhere(raw_text, is_inline, line_content) ==
    /\ line_content # <<>>
    /\ \E k \in 1..Len(IndicatorWords) :
          /\ CommentIndicatorSearch(k, raw_text)
          /\ CodeIndicatorSearch(k, line_content)

is_trivial(raw_text, is_inline, line_content) ==
    /\ line_content # <<>>
    /\ is_inline
    /\ \E k \in 1..Len(IndicatorWords) :
          /\ CommentIndicatorSearch(k, raw_text)
          /\ CodeIndicatorSearch(k, line_content)
is_checklist(text) == AnySearch(_CHECKLIST_PATTERNS, text)
is_why(text) == AnySearch(_WHY_PATTERNS, text)
is_teacher(text) == AnySearch(_TEACHER_PATTERNS, text)
is_guide(text) == \E k \in 1..4 : GuidePatternMatch(k, text)
is_short_inline(text, is_inline) == is_inline /\ TextLen(text) < 20

\* Mutant: the why check is made before the debt check.
classify_comment_why_before_debt(text, raw_text, is_inline, is_docstring, line_content) ==
    IF is_docstring
    THEN IF TextLen(text) < 10 THEN Outcome("function", "enhance")
         ELSE Outcome("function", "keep")
    ELSE IF is_backup(raw_text) THEN Outcome("backup", "delete")
    ELSE IF is_why(text) THEN Outcome("why", "keep")
    ELSE IF is_debt(text) THEN Outcome("debt", "rewrite")
    ELSE IF is_trivial(raw_text, is_inline, line_content)
         THEN Outcome("trivial", "delete")
    ELSE IF is_checklist(text) THEN Outcome("checklist", "keep")
    ELSE IF is_teacher(text) THEN Outcome("teacher", "keep")
    ELSE IF is_guide(text) THEN Outcome("guide", "keep")
    ELSE IF is_short_inline(text, is_inline) THEN Outcome("trivial", "enhance")
    ELSE Outcome("unknown", "enhance")

\* Mutant: a comment that restates the code is to be rewritten.
classify_comment_rewrite_trivial(text, raw_text, is_inline, is_docstring, line_content) ==
    IF is_docstring
    THEN IF TextLen(text) < 10 THEN Outcome("function", "enhance")
         ELSE Outcome("function", "keep")
    ELSE IF is_backup(raw_text) THEN Outcome("backup", "delete")
    ELSE IF is_debt(text) THEN Outcome("debt", "rewrite")
    ELSE IF is_trivial(raw_text, is_inline, line_content)
         THEN Outcome("trivial", "rewrite")
    ELSE IF is_checklist(text) THEN Outcome("checklist", "keep")
    ELSE IF is_why(text) THEN Outcome("why", "keep")
    ELSE IF is_teacher(text) THEN Outcome("teacher", "keep")
    ELSE IF is_guide(text) THEN Outcome("guide", "keep")
    ELSE IF is_short_inline(text, is_inline) THEN Outcome("trivial", "enhance")
    ELSE Outcome("unknown", "enhance")

\* Mutant: the docstring check is made after the backup and debt checks.
classify_comment_docstring_after_debt(text, raw_text, is_inline, is_docstring, line_content) ==
    IF is_backup(raw_text) THEN Outcome("backup", "delete")
    ELSE IF is_debt(text) THEN Outcome("debt", "rewrite")
    ELSE IF is_docstring
    THEN IF TextLen(text) < 10 THEN Outcome("function", "enhance")
         ELSE Outcome("function", "keep")
    ELSE IF is_trivial(raw_text, is_inline, line_content)
         THEN Outcome("trivial", "delete")
    ELSE IF is_checklist(text) THEN Outcome("checklist", "keep")
    ELSE IF is_why(text) THEN Outcome("why", "keep")
    ELSE IF is_teacher(text) THEN Outcome("teacher", "keep")
    ELSE IF is_guide(text) THEN Outcome("guide", "keep")
    ELSE IF is_short_inline(text, is_inline) THEN Outcome("trivial", "enhance")
    ELSE Outcome("unknown", "enhance")

\* classify_comment, lines 315-431.  text.lower() changes no word of Words.
classify_comment(text, raw_text, is_inline, is_docstring, line_content) ==
    IF is_docstring
    THEN IF TextLen(text) < 10 THEN Outcome("function", "enhance")
         ELSE Outcome("function", "keep")
    ELSE IF is_backup(raw_text) THEN Outcome("backup", "delete")
    ELSE IF is_debt(text) THEN Outcome("debt", "rewrite")
    ELSE IF is_trivial(raw_text, is_inline, line_content)
         THEN Outcome("trivial", "delete")
    ELSE IF is_checklist(text) THEN Outcome("checklist", "keep")
    ELSE IF is_why(text) THEN Outcome("why", "keep")
    ELSE IF is_teacher(text) THEN Outcome("teacher", "keep")
    ELSE IF is_guide(text) THEN Outcome("guide", "keep")
    ELSE IF is_short_inline(text, is_inline) THEN Outcome("trivial", "enhance")
    ELSE Outcome("unknown", "enhance")

\* Line 192: _DEBT_REMOVAL_PATTERN matches a marker, a colon and the white
\* space after it; sub("", text).strip() drops the chunks that are a marker.
IsDebtToken(c) ==
    /\ Len(Words(c)) = 1
    /\ (c = Words(c)[1] \/ c = "TODO:")
    /\ AnySearch(_DEBT_PATTERNS, <<c>>)

\* Mutant: the text is taken as it is.
task_text_with_markers(text) == text

task_text(text) == SelectSeq(text, LAMBDA c : ~IsDebtToken(c))

\* The docstring template of lines 467-472, one unit per line.
DocstringTemplate ==
    << <<"\"\"\"[Brief description of what this does]">>, <<>>,
       <<"Args:">>, <<"    [parameter]: [description]">>, <<>>,
       <<"Returns:">>, <<"    [description of return value]">>, <<>>,
       <<"Raises:">>, <<"    [Exception]: [when it is raised]">>, <<"\"\"\"">> >>

\* suggest_rewrite, lines 434-474: None or the lines of the suggestion.
suggest_rewrite(c) ==
    IF c.classification = "delete" THEN None
    ELSE IF c.comment_type = "debt"
         THEN << <<HASH, DesignChunk>> \o task_text(c.text), <<HASH, ContextChunk>> >>
    ELSE IF c.comment_type = "trivial" THEN << <<HASH, WhyTemplate>> >>
    ELSE IF c.comment_type = "function" /\ c.classification = "enhance"
         THEN DocstringTemplate
    ELSE None

\* _analyze_comments_impl, lines 525-549 and 555-572: the CommentInfo of one
\* comment; a docstring gets no suggestion.
comment_info(a) ==
    LET classified_as(cls) ==
            [ comment_type |-> cls.comment_type,
              classification |-> cls.classification,
              suggestion |->
                  IF a.is_docstring THEN None
                  ELSE suggest_rewrite(
                          [ text |-> a.text, raw_text |-> a.raw_text,
                            is_inline |-> a.is_inline,
                            is_docstring |-> a.is_docstring,
                            comment_type |-> cls.comment_type,
                            classification |-> cls.classification ]) ]
    IN  classified_as(classify_comment(a.text, a.raw_text, a.is_inline,
                                       a.is_docstring, a.line_content))

\* Bounds of the classified comments.
MaxChunks == 3

Texts == UNION { [1..n -> CommentChunks] : n \in 0..MaxChunks }

\* The code an inline comment may follow.
CodeParts == { <<>>, <<"i", "+=", "1">>, <<"y", "=", "f", "(", "x", ")">> }

RawComment(text) == <<HASH>> \o text
RawDocstring(text) == <<DQ3>> \o text \o <<DQ3>>

SourceLine(code, raw) == IF code = <<>> THEN raw ELSE code \o <<SP>> \o raw

NoComment == [is_docstring |-> FALSE, text |-> <<>>, raw_text |-> <<>>,
              is_inline |-> FALSE, line_content |-> None]
NotClassified == [comment_type |-> "none"]

\* The calls of classify_comment: a comment with or without its line, and a
\* docstring (lines 555-560).
CommentInit ==
    /\ \E text \in Texts, inline \in BOOLEAN :
          \/ \E line \in {None} \cup {SourceLine(code, RawComment(text)) : code \in CodeParts} :
                comment = [ is_docstring |-> FALSE, text |-> text,
                            raw_text |-> RawComment(text),
                            is_inline |-> inline, line_content |-> line ]
          \/ comment = [ is_docstring |-> TRUE, text |-> text,
                         raw_text |-> RawDocstring(text),
                         is_inline |-> inline, line_content |-> None ]
    /\ classified = NotClassified

CommentIdle ==
    /\ comment = NoComment
    /\ classified = NotClassified

ClassifyComment ==
    /\ classified = NotClassified
    /\ classified' = comment_info(comment)
    /\ UNCHANGED comment

(***************************************************************************)
(* comment_rewriter.py: extract_comments and _analyze_comments_impl        *)
(***************************************************************************)
\* A file content is the sequence of its units with NL after a line.  Every
\* unit counts as one column.  No string literal of the analysed files holds
\* a "#", and every file tokenizes and parses.
Whitespace == {SP, NL, FF}

RECURSIVE lstrip(_)
lstrip(s) == IF s # <<>> /\ Head(s) \in Whitespace THEN lstrip(Tail(s)) ELSE s

RECURSIVE rstrip(_)
rstrip(s) ==
    IF s # <<>> /\ s[Len(s)] \in Whitespace
    THEN rstrip(SubSeq(s, 1, Len(s) - 1)) ELSE s

strip(s) == lstrip(rstrip(s))

\* s[:n]
Slice(s, n) == SubSeq(s, 1, IF n < Len(s) THEN n ELSE Len(s))

\* The lines of s: a line ends at a boundary unit, and what follows the last
\* boundary is a line when it is not empty.
SplitAt(s, boundaries) ==
    LET ends == {i \in 1..Len(s) : s[i] \in boundaries}
        end_of(k) == IF k = 0 THEN 0
                     ELSE CHOOSE i \in ends : Cardinality({j \in ends : j <= i}) = k
        terminated == Cardinality(ends)
        count == IF end_of(terminated) < Len(s) THEN terminated + 1 ELSE terminated
    IN  [k \in 1..count |->
            SubSeq(s, end_of(k - 1) + 1,
                   IF k <= terminated THEN end_of(k) - 1 ELSE Len(s))]

\* str.splitlines(): a line ends at a line feed and at a form feed.
splitlines(s) == SplitAt(s, {NL, FF})

\* StringIO(source).readline, line 264: the lines tokenize numbers end at a
\* line feed only.
readlines(s) == SplitAt(s, {NL})

\* "\n".join(lines)
RECURSIVE join(_)
join(ls) ==
    IF ls = <<>> THEN <<>>
    ELSE IF Len(ls) = 1 THEN ls[1]
    ELSE ls[1] \o <<NL>> \o join(Tail(ls))

HashColumns(line) == {i \in 1..Len(line) : line[i] = HASH}
FirstHash(line) == CHOOSE i \in HashColumns(line) : \A j \in HashColumns(line) : i <= j

\* extract_comments, lines 248-282: (line_number, column, text, raw_text,
\* is_inline) of every COMMENT token.
extract_comments(source) ==
    LET physical == readlines(source)
        source_lines == splitlines(source)
        commented == SelectSeq([n \in 1..Len(physical) |-> n],
                               LAMBDA n : HashColumns(physical[n]) # {})
        token(line_num) ==
            LET col == FirstHash(physical[line_num]) - 1
                raw == SubSeq(physical[line_num], col + 1, Len(physical[line_num]))
            IN  [ line_number |-> line_num, column |-> col,
                  text |-> strip(Tail(raw)), raw_text |-> raw,
                  is_inline |-> /\ col > 0
                                /\ strip(Slice(source_lines[line_num], col)) # <<>> ]
    IN  [k \in 1..Len(commented) |-> token(commented[k])]

\* The statements tokenize and ast.parse accept on a line: the code of the
\* source lines below and what is left of it when it is cut at a column.
ValidStatements ==
    { <<"y", "=", "f", "(", "x", ")">>, <<"y", "=", "f">>, <<"y">>,
      <<"i", "+=", "1">>, <<"i">>, <<DQ3, "TODO:", "x", DQ3>> }

CodeBeforeComment(line) ==
    rstrip(IF HashColumns(line) = {} THEN line
           ELSE SubSeq(line, 1, FirstHash(line) - 1))

\* Lines 263-266 and 300-303: tokenize.TokenError and SyntaxError become a
\* CommentRewriterError.
parses(source) ==
    LET physical == readlines(source)
    IN  \A n \in 1..Len(physical) :
            \/ CodeBeforeComment(physical[n]) = <<>>
            \/ CodeBeforeComment(physical[n]) \in ValidStatements

\* extract_docstrings, lines 285-312, for a module without def and class: the
\* docstring of ast.Module is its first statement when that is a string; a
\* Module has no lineno, so line_num is 1.
Statements(source) ==
    SelectSeq(readlines(source),
              LAMBDA l : strip(l) # <<>> /\ Head(strip(l)) # HASH)

extract_docstrings(source) ==
    LET body == Statements(source)
    IN  IF body # <<>> /\ Head(body[1]) = DQ3 /\ Len(body[1]) > 2
        THEN << [line_number |-> 1, text |-> SubSeq(body[1], 2, Len(body[1]) - 1)] >>
        ELSE <<>>

\* list.sort(key=lambda c: c.line_number), line 577: a stable sort.
RECURSIVE sort_by_line_number(_)
sort_by_line_number(cs) ==
    IF cs = <<>> THEN <<>>
    ELSE LET last == cs[Len(cs)]
             sorted == sort_by_line_number(SubSeq(cs, 1, Len(cs) - 1))
         IN  SelectSeq(sorted, LAMBDA c : c.line_number <= last.line_number)
             \o <<last>>
             \o SelectSeq(sorted, LAMBDA c : c.line_number > last.line_number)

\* The body of the loop over extract_comments(content), lines 522-549: the
\* CommentInfo of one comment.
comment_of(source_lines, c) ==
    [ line_number |-> c.line_number, column |-> c.column,
      text |-> c.text, is_docstring |-> FALSE,
      is_inline |-> c.is_inline ]
    @@ comment_info([ is_docstring |-> FALSE, text |-> c.text,
                      raw_text |-> c.raw_text,
                      is_inline |-> c.is_inline,
                      line_content |->
                          IF c.line_number <= Len(source_lines)
                          THEN source_lines[c.line_number] ELSE <<>> ])

\* The body of the loop over extract_docstrings(content), lines 554-574.
docstring_of(d) ==
    [ line_number |-> d.line_number, column |-> 0,
      text |-> d.text, is_docstring |-> TRUE, is_inline |-> FALSE ]
    @@ comment_info([ is_docstring |-> TRUE, text |-> d.text,
                      raw_text |-> RawDocstring(d.text),
                      is_inline |-> FALSE,
                      line_content |-> None ])

\* _analyze_comments_impl, lines 512-577: analysis.comments.
_analyze_comments_impl(source) ==
    LET source_lines == splitlines(source)
        comments == extract_comments(source)
        docstrings == extract_docstrings(source)
    IN  sort_by_line_number(
            [k \in 1..Len(comments) |-> comment_of(source_lines, comments[k])]
            \o [k \in 1..Len(docstrings) |-> docstring_of(docstrings[k])])

(***************************************************************************)
(* comment_rewriter.py: rewrite_file; rewrite_comments.py: rewrite         *)
(***************************************************************************)
NoPlan == [lines_to_delete |-> {}, line_modifications |-> <<>>, changes |-> <<>>]

Change(line_number, what) == [line_number |-> line_number, change |-> what]

\* Lines 691-736: the body of the loop over analysis.comments.  The keys of
\* line_modifications are the domain of the function.
process_comment(plan, c, source_lines) ==
    LET line_idx == c.line_number - 1
        old_line == source_lines[line_idx + 1]
        new_line == rstrip(Slice(old_line, c.column))
        indent == Len(old_line) - Len(lstrip(old_line))
        suggestion_text ==
            join([k \in 1..Len(c.suggestion) |->
                    [j \in 1..indent |-> SP] \o c.suggestion[k]])
    IN  IF c.is_docstring THEN plan
        ELSE IF ~(0 <= line_idx /\ line_idx < Len(source_lines)) THEN plan
        ELSE IF c.classification = "delete"
        THEN IF c.is_inline
             THEN IF strip(new_line) # <<>>
                  THEN [plan EXCEPT
                          !.line_modifications = (line_idx :> new_line) @@ @,
                          !.changes = Append(@, Change(c.line_number, "Removed inline comment"))]
                  ELSE [plan EXCEPT
                          !.lines_to_delete = @ \cup {line_idx},
                          !.changes = Append(@, Change(c.line_number, "Deleted line"))]
             ELSE IF strip(old_line) # <<>> /\ Head(strip(old_line)) = HASH
                  THEN [plan EXCEPT
                          !.lines_to_delete = @ \cup {line_idx},
                          !.changes = Append(@, Change(c.line_number, "Deleted comment line"))]
                  ELSE plan
        ELSE IF c.classification = "rewrite" /\ c.suggestion # None
        THEN IF line_idx \notin DOMAIN plan.line_modifications
             THEN [plan EXCEPT
                     !.line_modifications =
                         (line_idx :> (suggestion_text \o <<NL>> \o old_line)) @@ @,
                     !.changes = Append(@, Change(c.line_number, "Suggested rewrite"))]
             ELSE plan
        ELSE plan

\* Lines 690-736: the loop.
RECURSIVE process_comments(_, _, _)
process_comments(plan, comments, source_lines) ==
    IF comments = <<>> THEN plan
    ELSE process_comments(process_comment(plan, Head(comments), source_lines),
                          Tail(comments), source_lines)

\* Lines 740-742.
apply_modifications(source_lines, plan) ==
    [i \in 1..Len(source_lines) |->
        IF (i - 1) \in DOMAIN plan.line_modifications
           /\ (i - 1) \notin plan.lines_to_delete
        THEN plan.line_modifications[i - 1]
        ELSE source_lines[i]]

\* Mutant: the indexes are popped in ascending order.
sorted_forward(indexes) ==
    [k \in 1..Cardinality(indexes) |->
        CHOOSE x \in indexes : Cardinality({y \in indexes : y < x}) = k - 1]

\* sorted(lines_to_delete, reverse=True), line 745.
sorted_reverse(indexes) ==
    [k \in 1..Cardinality(indexes) |->
        CHOOSE x \in indexes : Cardinality({y \in indexes : y > x}) = k - 1]

\* list.pop(idx)
pop(ls, idx) == SubSeq(ls, 1, idx) \o SubSeq(ls, idx + 2, Len(ls))

\* Lines 745-747.
RECURSIVE delete_lines(_, _)
delete_lines(ls, order) ==
    IF order = <<>> THEN ls
    ELSE delete_lines(IF 0 <= Head(order) /\ Head(order) < Len(ls)
                      THEN pop(ls, Head(order)) ELSE ls,
                      Tail(order))

SourcePath == "module.py"
OutputPath == "out.py"
CliBackupPath == "module.py.bak"
NoOutputPath == ""

\* target.with_suffix(target.suffix + ".tmp"), line 757.
backup_path(target) == IF target = SourcePath THEN "module.py.tmp" ELSE "out.py.tmp"

exists(fs, path) == path \in DOMAIN fs
write_text(fs, path, data) == (path :> data) @@ fs
unlink(fs, path) == [p \in DOMAIN fs \ {path} |-> fs[p]]

\* Lines 756-768 when no call of the file system fails.
write_target(fs, target, rewritten) ==
    IF exists(fs, target)
    THEN LET saved == write_text(fs, backup_path(target), fs[target])
         IN  unlink(write_text(saved, target, rewritten), backup_path(target))
    ELSE write_text(fs, target, rewritten)

\* Mutant: the content is written in a dry run too.
write_always(fs, target, rewritten, dry_run) == write_target(fs, target, rewritten)

\* Lines 752-770.
write_unless_dry_run(fs, target, rewritten, dry_run) ==
    IF ~dry_run THEN write_target(fs, target, rewritten) ELSE fs

\* rewrite_file, lines 645-772: (rewritten, changes) and the file system it
\* leaves, with the lines_to_delete and line_modifications of the call.
rewrite_file(fs, file_path, output_path, dry_run) ==
    LET target == IF output_path # NoOutputPath THEN output_path ELSE file_path
        \* Lines 752-772.
        written(plan, rewritten) ==
            [ content |-> fs[file_path],
              rewritten |-> rewritten,
              changes |-> IF dry_run THEN plan.changes
                          ELSE Append(plan.changes, Change(0, "Wrote changes")),
              lines_to_delete |-> plan.lines_to_delete,
              line_modifications |-> plan.line_modifications,
              target |-> target,
              files |-> write_unless_dry_run(fs, target, rewritten, dry_run) ]
        \* Lines 739-749.
        applied(source_lines, plan) ==
            written(plan,
                    join(delete_lines(apply_modifications(source_lines, plan),
                                      sorted_reverse(plan.lines_to_delete))))
        \* Lines 679-736.
        analyzed(source_lines, comments) ==
            applied(source_lines, process_comments(NoPlan, comments, source_lines))
    IN  analyzed(splitlines(fs[file_path]), _analyze_comments_impl(fs[file_path]))

\* Bounds: the lines of a file rewritten once, and the lines and the runs of
\* the command when it is run again and again on one file.
MaxFileLines == 3
MaxRerunLines == 2
MaxRuns == 2

\* The lines a source file is written with.
SourceLines ==
    { <<"y", "=", "f", "(", "x", ")">>,
      <<FF>>,
      <<HASH, "x", "=", "x">>,
      <<"i", "+=", "1", SP, HASH, "x", "=", "x">>,
      <<SP, HASH, "TODO:", "x">>,
      <<HASH, "because", "x">>,
      <<DQ3, "TODO:", "x", DQ3>>,
      <<"y", "=", "f", "(">> }

NoCall == [called |-> FALSE]

RewriteInit ==
    /\ files = (SourcePath :> <<>>)
    /\ dry_run_result = NoCall
    /\ apply_result = NoCall
    /\ runs = 0

RewriteIdle == RewriteInit

\* The user edits the source file: one more line.
EditSource(max_lines) ==
    /\ runs = 0
    /\ Len(readlines(files[SourcePath])) < max_lines
    /\ \E line \in SourceLines :
          files' = write_text(files, SourcePath, files[SourcePath] \o line \o <<NL>>)
    /\ UNCHANGED <<dry_run_result, apply_result, runs>>

\* A call of rewrite_file as the rewrite command makes it (lines 144-159 of
\* rewrite_comments.py), with the file system before and after the command.
Called(before, fs, output, apply) ==
    [called |-> TRUE, files_before |-> before]
    @@ rewrite_file(fs, SourcePath, output, ~apply)

\* rewrite without --apply, lines 133-172 of rewrite_comments.py.  may_run
\* is the condition under which the specification runs the command.
RewriteDryRun(may_run) ==
    /\ may_run
    /\ exists(files, SourcePath)
    /\ parses(files[SourcePath])
    /\ \E output \in {NoOutputPath, OutputPath} :
          \E call \in {Called(files, files, output, FALSE)} :
              /\ dry_run_result' = call
              /\ files' = call.files
    /\ runs' = runs + 1
    /\ UNCHANGED apply_result

\* rewrite --apply, with or without --backup and --output.
RewriteApply(may_run) ==
    /\ may_run
    /\ exists(files, SourcePath)
    /\ parses(files[SourcePath])
    /\ \E output \in {NoOutputPath, OutputPath}, backup \in BOOLEAN :
          LET saved == IF backup /\ output = NoOutputPath
                       THEN write_text(files, CliBackupPath, files[SourcePath])
                       ELSE files
          IN  \E call \in {Called(files, saved, output, TRUE)} :
                  /\ apply_result' = call
                  /\ files' = call.files
    /\ runs' = runs + 1
    /\ UNCHANGED dry_run_result

\* Lines 160-161 of rewrite_comments.py: the CommentRewriterError of a file
\* that does not parse ends the command.  With --apply and --backup the .bak
\* copy is written before (lines 148-152).
RewriteRaises(may_run) ==
    /\ may_run
    /\ exists(files, SourcePath)
    /\ ~parses(files[SourcePath])
    /\ \E apply \in BOOLEAN, output \in {NoOutputPath, OutputPath}, backup \in BOOLEAN :
          files' = IF backup /\ apply /\ output = NoOutputPath
                   THEN write_text(files, CliBackupPath, files[SourcePath])
                   ELSE files
    /\ runs' = runs + 1
    /\ UNCHANGED <<dry_run_result, apply_result>>

\* Bound: the units of a text that reach a file before its write fails.
MaxWritten == 2

\* The call of the file system that fails during lines 756-768, if one does:
\* a write_text at its open or at its write, or the unlink.
Faults ==
    { "none", "backup_open", "backup_write", "target_open", "target_write", "unlink" }

\* Path.write_text whose write fails: open has created or truncated the file
\* and the first units of the text, at most `written`, have reached it.
write_text_partly(fs, path, data, written) ==
    write_text(fs, path,
               SubSeq(data, 1, IF written < Len(data) THEN written ELSE Len(data)))

\* Path.rename on a POSIX system: the target is replaced.
rename(fs, path, target) == unlink(write_text(fs, target, fs[path]), path)

\* The handler of lines 761-765.
restore_from_backup(fs, target) ==
    IF exists(fs, backup_path(target))
    THEN rename(fs, backup_path(target), target)
    ELSE fs

\* Lines 752-770 of a run that is no dry run: the files it leaves and
\* whether the exception of a failed call leaves rewrite_file.
write_target_or_raise(fs, target, rewritten, fault, written) ==
    LET backup == backup_path(target)
        raised(after) == [files |-> after, raised |-> TRUE]
        returned(after) == [files |-> after, raised |-> FALSE]
        saved == write_text(fs, backup, fs[target])
        replaced == write_text(saved, target, rewritten)
    IN  IF exists(fs, target)
        THEN CASE fault = "backup_open" ->
                    raised(restore_from_backup(fs, target))
               [] fault = "backup_write" ->
                    raised(restore_from_backup(
                        write_text_partly(fs, backup, fs[target], written), target))
               [] fault = "target_open" ->
                    raised(restore_from_backup(saved, target))
               [] fault = "target_write" ->
                    raised(restore_from_backup(
                        write_text_partly(saved, target, rewritten, written), target))
               [] fault = "unlink" ->
                    raised(restore_from_backup(replaced, target))
               [] OTHER ->
                    returned(unlink(replaced, backup))
        ELSE CASE fault = "target_open" ->
                    raised(fs)
               [] fault = "target_write" ->
                    raised(write_text_partly(fs, target, rewritten, written))
               [] OTHER ->
                    returned(write_text(fs, target, rewritten))

\* rewrite --apply when a call of the file system may fail: rewrite_file
\* computes the text as in a dry run (lines 645-749) and then writes it.
RewriteApplyOrRaise(may_run) ==
    /\ may_run
    /\ exists(files, SourcePath)
    /\ parses(files[SourcePath])
    /\ \E output \in {NoOutputPath, OutputPath}, fault \in Faults, written \in 0..MaxWritten :
          \E call \in {rewrite_file(files, SourcePath, output, TRUE)} :
              \E outcome \in {write_target_or_raise(files, call.target, call.rewritten,
                                                    fault, written)} :
                  /\ apply_result' = [ called |-> TRUE, files_before |-> files,
                                       target |-> call.target,
                                       rewritten |-> call.rewritten,
                                       fault |-> fault, raised |-> outcome.raised ]
                  /\ files' = outcome.files
    /\ runs' = runs + 1
    /\ UNCHANGED dry_run_result

(***************************************************************************)
(* measure_complexity.py: calculate_function_length and analyze_file       *)
(***************************************************************************)
\* The text of a string constant is the sequence of its units: "doc" is
\* <<"doc">>, "" is <<>> and " doc " is <<SP, "doc", SP>>.
Constant(kind, value) == [type |-> "Constant", kind |-> kind, value |-> value]

Statement(type, value, lineno, end_lineno) ==
    [type |-> type, value |-> value, lineno |-> lineno, end_lineno |-> end_lineno]

\* How a function is written: the lines of its header (def ... :), whether
\* its statements follow on the last header line, its first statement when
\* that is a constant expression, the lines of that expression, and the
\* number of statements after it, one per line.  Only a text with a word in
\* it is written on several lines.
FirstStatements ==
    { [kind |-> "none", value |-> <<>>],
      [kind |-> "str", value |-> <<"doc">>],
      [kind |-> "str", value |-> <<>>],
      [kind |-> "str", value |-> <<SP>>],
      [kind |-> "int", value |-> <<"42">>] }

ValidLayout(layout) ==
    /\ layout.first.kind = "none" => (layout.rest > 0 /\ layout.span = 1)
    /\ layout.inline => (layout.span = 1 /\ layout.rest <= 1)
    /\ layout.first.value \in {<<>>, <<SP>>, <<"42">>} => layout.span = 1

\* ast.parse, line 158: the node of a definition that starts at lineno.  The
\* body holds the statements of a function and the definitions of a class;
\* subtree is the subtree of the function as the visitors walk it.
function_node(type, name, layout, subtree, lineno) ==
    LET header_end == lineno + layout.header - 1
        first_line == IF layout.inline THEN header_end ELSE header_end + 1
        constants ==
            IF layout.first.kind = "none" THEN <<>>
            ELSE << Statement("Expr", Constant(layout.first.kind, layout.first.value),
                              first_line, first_line + layout.span - 1) >>
        next_line == IF constants = <<>> \/ layout.inline THEN first_line
                     ELSE first_line + layout.span
        statements ==
            [k \in 1..layout.rest |->
                Statement("Pass", None,
                          IF layout.inline THEN first_line ELSE next_line + k - 1,
                          IF layout.inline THEN first_line ELSE next_line + k - 1)]
        body == constants \o statements
    IN  [ type |-> type, name |-> name, args |-> ast_arguments(<<>>),
          lineno |-> lineno, end_lineno |-> body[Len(body)].end_lineno,
          body |-> body, subtree |-> subtree ]

class_node(name, methods, lineno) ==
    [ type |-> "ClassDef", name |-> name, lineno |-> lineno,
      end_lineno |-> IF methods = <<>> THEN lineno + 1
                     ELSE methods[Len(methods)].end_lineno,
      body |-> IF methods = <<>> THEN << Statement("Pass", None, lineno + 1, lineno + 1) >>
               ELSE methods ]

\* inspect.cleandoc on the modelled texts: the blank ends are removed.
cleandoc(text) == strip(text)

\* ast.get_docstring(func_node), called at line 140: None, or the cleaned
\* text of the string that is the first statement.  A returned text is
\* <<text>>, so that "" differs from None.
get_docstring(node) ==
    IF ~(node.body # <<>> /\ node.body[1].type = "Expr") THEN None
    ELSE IF node.body[1].value.type = "Constant" /\ node.body[1].value.kind = "str"
         THEN << cleandoc(node.body[1].value.value) >>
         ELSE None

\* The truth value of an optional string: None and "" are false.
truthy(optional) == optional # None /\ optional[1] # <<>>

\* calculate_function_length, lines 130-149.
calculate_function_length(node) ==
    LET total_lines == IF node.end_lineno # 0
                       THEN node.end_lineno - node.lineno + 1
                       ELSE 1
        docstring_node == node.body[1]
        docstring_lines == docstring_node.end_lineno - docstring_node.lineno + 1
    IN  IF /\ truthy(get_docstring(node))
           /\ node.body # <<>>
           /\ node.body[1].type = "Expr"
           /\ node.body[1].value.type \in {"Str", "Constant"}
        THEN Max2(1, total_lines - docstring_lines)
        ELSE Max2(1, total_lines)

\* ast.walk(tree), line 166: the nodes breadth first.  Of the nodes of the
\* tree only the definitions are kept here; no other node is a FunctionDef.
IsDefinition(node) == node.type \in FunctionTypes \cup {"ClassDef"}

Definitions(nodes) == SelectSeq(nodes, IsDefinition)

RECURSIVE ast_walk(_)
ast_walk(todo) ==
    IF todo = <<>> THEN <<>>
    ELSE <<Head(todo)>> \o ast_walk(Tail(todo) \o Definitions(Head(todo).body))

\* Lines 166-176: the FunctionMetrics of the nodes that are ast.FunctionDef.
function_metrics(node) ==
    [ name |-> node.name,
      line_number |-> node.lineno,
      complexity |-> calculate_complexity(node.subtree),
      length |-> calculate_function_length(node),
      max_nesting |-> calculate_max_nesting(node.subtree),
      num_parameters |-> Len(node.args.args) ]

collect_functions(body) ==
    LET found == SelectSeq(ast_walk(Definitions(body)),
                           LAMBDA node : node.type = "FunctionDef")
    IN  [k \in 1..Len(found) |-> function_metrics(found[k])]

\* sum(...) and max(...) over the records, lines 180-185.
RECURSIVE sum(_)
sum(numbers) == IF numbers = <<>> THEN 0 ELSE Head(numbers) + sum(Tail(numbers))

RECURSIVE max(_)
max(numbers) ==
    IF Len(numbers) = 1 THEN Head(numbers) ELSE Max2(Head(numbers), max(Tail(numbers)))

\* round(sum / len, 2), lines 194-198, in hundredths.  The average of at most
\* seven integers is never half a hundredth from a multiple of a hundredth,
\* so the rounding is to the nearest.
rounded_average(numbers) ==
    (200 * sum(numbers) + Len(numbers)) \div (2 * Len(numbers))

\* analyze_file, lines 163-201, on a file that parses.  The averages are in
\* hundredths.
analyze_file(body) ==
    LET functions == collect_functions(body)
        complexities == [k \in 1..Len(functions) |-> functions[k].complexity]
        lengths == [k \in 1..Len(functions) |-> functions[k].length]
        nestings == [k \in 1..Len(functions) |-> functions[k].max_nesting]
        some == functions # <<>>
    IN  [ analyzed |-> TRUE,
          total_functions |-> Len(functions),
          avg_complexity |-> IF some THEN rounded_average(complexities) ELSE 0,
          max_complexity |-> IF some THEN max(complexities) ELSE 0,
          avg_length |-> IF some THEN rounded_average(lengths) ELSE 0,
          max_length |-> IF some THEN max(lengths) ELSE 0,
          avg_nesting |-> IF some THEN rounded_average(nestings) ELSE 0,
          max_nesting |-> IF some THEN max(nestings) ELSE 0,
          functions |-> functions ]

\* Bounds of the function layouts.
MaxHeaderLines == 2
MaxSpan == 2
MaxRest == 2

Layouts ==
    { layout \in [ header : 1..MaxHeaderLines, inline : BOOLEAN,
                   first : FirstStatements, span : 1..MaxSpan,
                   rest : 0..MaxRest ] : ValidLayout(layout) }

\* A file of one function or one method.
LengthInit ==
    /\ \E type \in FunctionTypes, layout \in Layouts, method \in BOOLEAN :
          source_tree =
              IF method
              THEN << class_node(<<1>>, << function_node(type, <<1, 1>>, layout, <<>>, 2) >>, 1) >>
              ELSE << function_node(type, <<1>>, layout, <<>>, 1) >>
    /\ file_metrics = NoMetrics

\* The definitions of the analysed files: functions and methods, plain and
\* async, with a docstring or without, flat or with blocks in blocks.
FileLayouts ==
    { [header |-> 1, inline |-> TRUE, first |-> [kind |-> "none", value |-> <<>>],
       span |-> 1, rest |-> 1],
      [header |-> 1, inline |-> FALSE, first |-> [kind |-> "str", value |-> <<"doc">>],
       span |-> 2, rest |-> 2] }

FileSubtrees ==
    { <<>>,
      << [type |-> "If", size |-> 0, parent |-> 0],
         [type |-> "For", size |-> 0, parent |-> 1],
         [type |-> "BoolOp", size |-> 2, parent |-> 1] >> }

MaxDefinitions == 2

\* The next statement of the module: a function, or a class of one method.
NextDefinition(body) ==
    LET place == Len(body) + 1
        lineno == IF body = <<>> THEN 1 ELSE body[Len(body)].end_lineno + 1
    IN  { function_node(type, <<place>>, layout, subtree, lineno) :
            type \in FunctionTypes, layout \in FileLayouts, subtree \in FileSubtrees }
        \cup { class_node(<<place>>, methods, lineno) :
                 methods \in {<<>>} \cup
                   { << function_node(type, <<place, 1>>, layout, subtree, lineno + 1) >> :
                       type \in FunctionTypes, layout \in FileLayouts,
                       subtree \in FileSubtrees } }

FileInit ==
    /\ source_tree = <<>>
    /\ file_metrics = NoMetrics

FileIdle ==
    /\ source_tree = <<>>
    /\ file_metrics = NoMetrics

\* The file grows by one definition before it is analysed.
AddDefinition ==
    /\ file_metrics = NoMetrics
    /\ Len(source_tree) < MaxDefinitions
    /\ \E node \in NextDefinition(source_tree) :
          source_tree' = Append(source_tree, node)
    /\ UNCHANGED file_metrics

AnalyzeFile ==
    /\ file_metrics = NoMetrics
    /\ file_metrics' = analyze_file(source_tree)
    /\ UNCHANGED source_tree

(***************************************************************************)
(* The batch driver: concurrent calls of the core operations               *)
(***************************************************************************)
\* A driver (a parallel batch scan) has several calls of the core operations
\* in progress, each on its own input.  A call keeps its argument and its
\* local names in its frame.  The objects it creates, the NestingAnalyzer of
\* line 125 of measure_complexity.py and the CommentAnalysis of lines 514-519
\* of comment_rewriter.py, live in the heap; the local name (analyzer,
\* analysis) holds a reference, the index of the object in the heap.  The
\* modules hold no mutable global: the pattern lists and thresholds are only
\* read.
MaxInvocations == 2

NotInvoked ==
    [ op |-> "none", input |-> None, pc |-> "idle", ref |-> 0, ref2 |-> 0,
      stack |-> <<>>, result |-> None ]

\* The inputs of the concurrent calls.
Node(type, parent) == [type |-> type, size |-> 0, parent |-> parent]

DriverFunctions ==
    { << Node("If", 0), Node("For", 1), Node("Expr", 0) >>,
      << Node("While", 0), Node("With", 0) >> }

DriverSources ==
    { <<DQ3, "TODO:", "x", DQ3, NL, "i", "+=", "1", SP, HASH, "x", "=", "x", NL>>,
      <<HASH, "because", "x", NL>> }

DriverContents ==
    { [words |-> {"password", "token"}, loc |-> 50, imports |-> 0],
      [words |-> {"retry"}, loc |-> HIGH_LOC_THRESHOLD + 1, imports |-> 0] }

DriverComments ==
    { [ is_docstring |-> FALSE, text |-> <<"TODO:", "x">>,
        raw_text |-> RawComment(<<"TODO:", "x">>),
        is_inline |-> FALSE, line_content |-> None ],
      [ is_docstring |-> TRUE, text |-> <<"because", "x">>,
        raw_text |-> RawDocstring(<<"because", "x">>),
        is_inline |-> FALSE, line_content |-> None ] }

DriverModules ==
    { [ tree |-> << [type |-> "Import",
                     names |-> << [name |-> <<"os">>, asname |-> None] >>] >>,
        module_body |-> << declare(Stmt("Assign", <<>>), <<0, 1>>),
                           declare(Stmt("FunctionDef", <<>>), <<2>>) >>,
        content_lines |-> << <<"cursor.execute(sql)">> >> ],
      [ tree |-> <<>>,
        module_body |-> << declare(Stmt("ClassDef", << Stmt("FunctionDef", <<>>) >>), <<1>>) >>,
        content_lines |-> << <<"x = 1">> >> ] }

\* Mutant: every call is handed the same object, as a module-level
\* analyzer would be.
allocate_shared(heap) == 1

\* A constructor call (NestingAnalyzer(), CommentAnalysis(...)) makes a new
\* object: its reference is none of the references in use.
allocate(heap) == Len(heap) + 1

\* Mutant: the list is one list of the module, made once.
module_list(heap) == 1

\* A list display (classes = [], functions = [] at lines 493-494) makes a
\* new, empty list.
new_list(heap) == Len(heap) + 1

\* The heap after a list display: a new list is empty, a list that is there
\* already stays as it is.
with_list(heap, ref) == IF ref > Len(heap) THEN Append(heap, <<>>) ELSE heap

\* The heap with the object at the reference.
store(heap, ref, object) ==
    IF ref > Len(heap) THEN Append(heap, object)
    ELSE [heap EXCEPT ![ref] = object]

\* The frames of the visitor's recursion: the nodes generic_visit still has
\* to visit, and the return into _visit_nested after its generic_visit.
Visit(nodes) == [k \in 1..Len(nodes) |-> [frame |-> "visit", node |-> nodes[k]]]
Leave == [frame |-> "leave", node |-> 0]

\* _visit_nested, lines 104-105 and line 107, on the analyzer object.
enter_nested(a) ==
    [ current_depth |-> a.current_depth + 1,
      max_depth |-> Max2(a.max_depth, a.current_depth + 1) ]
leave_nested(a) == [a EXCEPT !.current_depth = @ - 1]

\* The loops of _analyze_comments_impl, lines 522 and 554, still to run.
Pending(source) ==
    LET comments == extract_comments(source)
        docstrings == extract_docstrings(source)
    IN  [k \in 1..Len(comments) |-> [kind |-> "comment", item |-> comments[k]]]
        \o [k \in 1..Len(docstrings) |-> [kind |-> "docstring", item |-> docstrings[k]]]

DriverInit ==
    /\ invocations = [i \in 1..MaxInvocations |-> NotInvoked]
    /\ objects = <<>>

DriverIdle ==
    /\ invocations = [i \in 1..MaxInvocations |-> NotInvoked]
    /\ objects = <<>>

Invoked(i, op, input) ==
    [invocations EXCEPT ![i] = [NotInvoked EXCEPT !.op = op, !.input = input,
                                                  !.pc = "called"]]

Returned(i, value) ==
    [invocations EXCEPT ![i] = [@ EXCEPT !.pc = "returned", !.result = value]]

\* The driver starts a call on an input of its own.
Invoke ==
    \E i \in 1..MaxInvocations :
        /\ invocations[i].pc = "idle"
        /\ \/ \E m \in DriverModules : invocations' = Invoked(i, "parse_content", m)
           \/ \E c \in DriverContents : invocations' = Invoked(i, "classify_from_content", c)
           \/ \E c \in DriverComments : invocations' = Invoked(i, "classify_comment", c)
           \/ \E f \in DriverFunctions : invocations' = Invoked(i, "calculate_max_nesting", f)
           \/ \E s \in DriverSources : invocations' = Invoked(i, "_analyze_comments_impl", s)
        /\ UNCHANGED objects

\* The caller parses a text, the first time or once more.
InvokeParse ==
    \E i \in 1..MaxInvocations, m \in DriverModules :
        /\ invocations[i].pc = "idle"
        /\ invocations' = Invoked(i, "parse_content", m)
        /\ UNCHANGED objects

\* parse_content, lines 490-494: tree = ast.parse(content), classes = [],
\* functions = [].
ParseContentEnter ==
    \E i \in 1..MaxInvocations :
        /\ invocations[i].pc = "called"
        /\ invocations[i].op = "parse_content"
        /\ \E classes_ref \in {new_list(objects)} :
              \E functions_ref \in {new_list(with_list(objects, classes_ref))} :
                 /\ objects' = with_list(with_list(objects, classes_ref), functions_ref)
                 /\ invocations' =
                       [invocations EXCEPT ![i] =
                           [@ EXCEPT !.pc = "running", !.ref = classes_ref,
                                     !.ref2 = functions_ref,
                                     !.stack = invocations[i].input.module_body]]

\* One iteration of the loop over tree.body, lines 496-500.
ParseContentLoop ==
    \E i \in 1..MaxInvocations :
        /\ invocations[i].pc = "running"
        /\ invocations[i].op = "parse_content"
        /\ invocations[i].stack # <<>>
        /\ LET call == invocations[i]
               node == Head(call.stack)
           IN  objects' =
                  IF node.type = "ClassDef"
                  THEN [objects EXCEPT ![call.ref] = Append(@, parse_class(node))]
                  ELSE IF node.type \in FunctionTypes
                  THEN [objects EXCEPT ![call.ref2] = Append(@, parse_function(node))]
                  ELSE objects
        /\ invocations' = [invocations EXCEPT ![i].stack = Tail(@)]

\* Lines 501-509: the ParseResult of the two lists and of the helpers.
ParseContentReturn ==
    \E i \in 1..MaxInvocations :
        /\ invocations[i].pc = "running"
        /\ invocations[i].op = "parse_content"
        /\ invocations[i].stack = <<>>
        /\ invocations' =
              Returned(i, [ parsed |-> TRUE,
                            classes |-> objects[invocations[i].ref],
                            functions |-> objects[invocations[i].ref2],
                            exported_symbols |->
                                find_exported_symbols(invocations[i].input.module_body),
                            external_calls |->
                                find_external_calls(invocations[i].input.content_lines),
                            imports |-> parse_imports(invocations[i].input.tree),
                            constants |->
                                find_constants(invocations[i].input.module_body) ])
        /\ UNCHANGED objects

\* classify_from_content and classify_comment work on their arguments and on
\* lists they build and return; they create no object that outlives a step
\* of the call.

ClassifyFromContentCall ==
    \E i \in 1..MaxInvocations :
        /\ invocations[i].pc = "called"
        /\ invocations[i].op = "classify_from_content"
        /\ invocations' = Returned(i, classify_from_content(invocations[i].input))
        /\ UNCHANGED objects

ClassifyCommentCall ==
    \E i \in 1..MaxInvocations :
        /\ invocations[i].pc = "called"
        /\ invocations[i].op = "classify_comment"
        /\ invocations' = Returned(i, comment_info(invocations[i].input))
        /\ UNCHANGED objects

\* calculate_max_nesting, line 125: analyzer = NestingAnalyzer(), and the
\* call of analyzer.visit(func_node).
MaxNestingEnter ==
    \E i \in 1..MaxInvocations :
        /\ invocations[i].pc = "called"
        /\ invocations[i].op = "calculate_max_nesting"
        /\ \E analyzer_ref \in {allocate(objects)} :
              /\ objects' = store(objects, analyzer_ref, NewNestingAnalyzer)
              /\ invocations' =
                    [invocations EXCEPT ![i] =
                        [@ EXCEPT !.pc = "running", !.ref = analyzer_ref,
                                  !.stack = Visit(Children(invocations[i].input, 0))]]

\* One step of analyzer.visit: a node is entered (lines 104-106), or
\* _visit_nested returns from its generic_visit (line 107).
MaxNestingVisit ==
    \E i \in 1..MaxInvocations :
        /\ invocations[i].pc = "running"
        /\ invocations[i].op = "calculate_max_nesting"
        /\ invocations[i].stack # <<>>
        /\ LET call == invocations[i]
               top == Head(call.stack)
               children == Visit(Children(call.input, top.node))
           IN  IF top.frame = "leave"
               THEN /\ objects' = [objects EXCEPT ![call.ref] = leave_nested(@)]
                    /\ invocations' = [invocations EXCEPT ![i].stack = Tail(@)]
               ELSE IF call.input[top.node].type \in NestedTypes
               THEN /\ objects' = [objects EXCEPT ![call.ref] = enter_nested(@)]
                    /\ invocations' = [invocations EXCEPT ![i].stack =
                                          children \o <<Leave>> \o Tail(@)]
               ELSE /\ objects' = objects
                    /\ invocations' = [invocations EXCEPT ![i].stack =
                                          children \o Tail(@)]

\* calculate_max_nesting, line 127: return analyzer.max_depth.
MaxNestingReturn ==
    \E i \in 1..MaxInvocations :
        /\ invocations[i].pc = "running"
        /\ invocations[i].op = "calculate_max_nesting"
        /\ invocations[i].stack = <<>>
        /\ invocations' = Returned(i, objects[invocations[i].ref].max_depth)
        /\ UNCHANGED objects

\* _analyze_comments_impl, lines 512-519: analysis = CommentAnalysis(...).
AnalyzeCommentsEnter ==
    \E i \in 1..MaxInvocations :
        /\ invocations[i].pc = "called"
        /\ invocations[i].op = "_analyze_comments_impl"
        /\ \E analysis_ref \in {allocate(objects)} :
              /\ objects' = store(objects, analysis_ref, [comments |-> <<>>])
              /\ invocations' =
                    [invocations EXCEPT ![i] =
                        [@ EXCEPT !.pc = "running", !.ref = analysis_ref,
                                  !.stack = Pending(invocations[i].input)]]

\* One iteration of a loop of lines 522-575: analysis.comments.append(comment).
AnalyzeCommentsLoop ==
    \E i \in 1..MaxInvocations :
        /\ invocations[i].pc = "running"
        /\ invocations[i].op = "_analyze_comments_impl"
        /\ invocations[i].stack # <<>>
        /\ LET call == invocations[i]
               next == Head(call.stack)
           IN  objects' =
                  [objects EXCEPT ![call.ref].comments =
                      Append(@, IF next.kind = "comment"
                                THEN comment_of(splitlines(call.input), next.item)
                                ELSE docstring_of(next.item))]
        /\ invocations' = [invocations EXCEPT ![i].stack = Tail(@)]

\* Lines 577-599: analysis.comments.sort(...) and return analysis.
AnalyzeCommentsReturn ==
    \E i \in 1..MaxInvocations :
        /\ invocations[i].pc = "running"
        /\ invocations[i].op = "_analyze_comments_impl"
        /\ invocations[i].stack = <<>>
        /\ objects' = [objects EXCEPT ![invocations[i].ref].comments =
                          sort_by_line_number(@)]
        /\ invocations' =
              Returned(i, sort_by_line_number(objects[invocations[i].ref].comments))

(***************************************************************************)
(* progress_tracker.py: ProgressTracker and file_lock                      *)
(***************************************************************************)
\* None where a text is optional, and the phase=None of get_next_pending
\* (line 311): the phases of a plan are numbered from 1.
NoValue == "None"
NoPhase == 0

\* Lines 62-63.
Statuses == { "pending", "analyzing", "done", "blocked" }
Classifications == { "critical", "high-complexity", "standard", "utility" }

\* Bounds: the entries of a progress file and the processes that save it.
MaxEntries == 2
MaxSavers == 2

\* The phases of the plan, and datetime.now().isoformat() of the session
\* and of an earlier one.
Phases == { 1, 2 }
Now == "now"
Then == "then"

\* str(n) of a small number, as in str(f.phase) and f"{len(done_files)}".
str(n) == << "0", "1", "2", "3", "4", "5", "6", "7", "8", "9" >>[n + 1]

\* The path of the i-th entry of the plan, written with the separator sep.
EntryPath(i, sep) == << "src", sep, << "a.py", "b.py", "c.py", "d.py" >>[i] >>

\* The dataclasses of lines 66-104.
FileEntry(path, phase, status, classification) ==
    [ path |-> path, phase |-> phase, status |-> status,
      classification |-> classification,
      verification_required |-> FALSE, verification_done |-> FALSE,
      notes |-> "", analyzed_at |-> NoValue ]

PhaseInfo(name) ==
    [ name |-> name, progress |-> << "0", "/", "0" >>, status |-> "pending" ]

Metadata(started, last_updated) ==
    [ started |-> started, last_updated |-> last_updated, current_phase |-> 1 ]

ProgressData(metadata, phases, entries) ==
    [ loaded |-> TRUE, metadata |-> metadata, phases |-> phases, files |-> entries ]

\* self.data = None, line 122.
NoData == [loaded |-> FALSE]

\* The progress file: whether it exists, the JSON document in it, and the
\* process that holds the flock on it (0: none).
NoProgressFile == [exists |-> FALSE, content |-> NoData, lock |-> 0]

\* A progress file as the plan setup writes it: every key is present.
PlannedFile(metadata, phases, entries) ==
    [ exists |-> TRUE, lock |-> 0,
      content |-> [metadata |-> metadata, phases |-> phases, files |-> entries] ]

\* load, lines 140-176, of an existing file.
load(raw_data) ==
    ProgressData(raw_data.metadata, raw_data.phases, raw_data.files)

\* Lines 188-189.
phase_files(entries, phase_num) ==
    SelectSeq(entries, LAMBDA f : str(f.phase) = phase_num)

done_files(entries) == SelectSeq(entries, LAMBDA f : f.status = "done")

\* Line 190: f"{len(done_files)}/{len(phase_files)}".
progress_text(done, total) == << str(done), "/", str(total) >>

\* Mutant: a phase with a done file is in progress, all done or not.
phase_status_started(done, total) ==
    IF done > 0 THEN "in_progress" ELSE "pending"

\* Lines 193-198.
phase_status(done, total) ==
    IF done = total /\ total > 0 THEN "completed"
    ELSE IF done > 0 THEN "in_progress"
    ELSE "pending"

\* Lines 187-198, for one phase.
updated_phase(info, entries, phase_num) ==
    LET counted(done, total) ==
            [info EXCEPT !.progress = progress_text(done, total),
                         !.status = phase_status(done, total)]
    IN  counted(Len(done_files(phase_files(entries, phase_num))),
                Len(phase_files(entries, phase_num)))

\* save, lines 183-198: self.data after the call.
save(data_loaded) ==
    [data_loaded EXCEPT
        !.metadata.last_updated = Now,
        !.phases = [phase_num \in DOMAIN data_loaded.phases |->
                       updated_phase(data_loaded.phases[phase_num],
                                     data_loaded.files, phase_num)]]

\* Lines 201-205: the document that json.dump writes.
output(data_loaded) ==
    [ metadata |-> data_loaded.metadata, phases |-> data_loaded.phases,
      files |-> data_loaded.files ]

\* str.replace on a path, a unit being a name or a separator.
replace(text, old, new) ==
    [i \in DOMAIN text |-> IF text[i] = old THEN new ELSE text[i]]

\* get_file, lines 224-231: the position of the entry, 0 for None.
get_file(entries, file_path) ==
    LET normalized == replace(file_path, "\\", "/")
        found == { i \in 1..Len(entries) :
                      replace(entries[i].path, "\\", "/") = normalized }
    IN  IF found = {} THEN 0
        ELSE CHOOSE i \in found : \A j \in found : i <= j

\* update_file, lines 260-277, on the entry found: verification_required,
\* verification_done and notes are not given.
update_entry(entry, status, classification) ==
    LET with_status ==
            IF status # NoValue
            THEN [entry EXCEPT !.status = status,
                               !.analyzed_at = IF status = "done" THEN Now ELSE @]
            ELSE entry
    IN  IF classification # NoValue
        THEN [with_status EXCEPT !.classification = classification]
        ELSE with_status

\* Mutant: the first pending entry, whatever its classification.
first_pending(entries, phase) ==
    LET pending == SelectSeq([i \in 1..Len(entries) |-> i],
                             LAMBDA i : /\ entries[i].status = "pending"
                                        /\ phase # NoPhase => entries[i].phase = phase)
    IN  IF pending # <<>> THEN pending[1] ELSE 0

\* get_next_pending, lines 324-343: the position of the entry returned, 0
\* for None.
get_next_pending(entries, phase) ==
    LET first_of(pending) ==
            LET critical ==
                    SelectSeq(pending, LAMBDA i : entries[i].classification = "critical")
                high_complexity ==
                    SelectSeq(pending,
                              LAMBDA i : entries[i].classification = "high-complexity")
            IN  IF critical # <<>> THEN critical[1]
                ELSE IF high_complexity # <<>> THEN high_complexity[1]
                ELSE IF pending # <<>> THEN pending[1]
                ELSE 0
        in_phase(pending) ==
            IF phase # NoPhase
            THEN SelectSeq(pending, LAMBDA i : entries[i].phase = phase)
            ELSE pending
    IN  first_of(in_phase(SelectSeq([i \in 1..Len(entries) |-> i],
                                    LAMBDA i : entries[i].status = "pending")))

\* What the last call of the session returned or raised; the session of a
\* command ends with its save.
NoReturn == [op |-> "none", phase |-> NoPhase, raised |-> "", value |-> 0]
Return(op, value) == [NoReturn EXCEPT !.op = op, !.value = value]
Raise(op, exception) == [NoReturn EXCEPT !.op = op, !.raised = exception]

\* A process in save, lines 207-209: where it is, whether it holds the
\* flock, the chunks json.dump has handed to the buffered file, those that
\* have reached the file, and whether it has truncated or written the file
\* while it did not hold the flock.
SaverIdle ==
    [pc |-> "idle", holds |-> FALSE, dumped |-> 0, flushed |-> 0, without_lock |-> FALSE]

\* The chunks of the document of process p.
Document(p) == << <<p, "{">>, <<p, "}">> >>

\* The plan of an earlier session: every entry is pending.
TrackerInit ==
    /\ tracker_data = NoData
    /\ tracker_result = NoReturn
    /\ savers = [p \in 1..MaxSavers |-> SaverIdle]
    /\ \/ progress_file = NoProgressFile
       \/ \E n \in 0..MaxEntries, keys \in SUBSET { str(phase) : phase \in Phases } :
             \E phase_of \in [1..n -> Phases] :
                 progress_file =
                     PlannedFile(Metadata(Then, Then),
                                 [k \in keys |-> PhaseInfo(k)],
                                 [i \in 1..n |->
                                     FileEntry(EntryPath(i, "/"), phase_of[i],
                                               "pending", NoValue)])

TrackerIdle ==
    /\ tracker_data = NoData
    /\ tracker_result = NoReturn
    /\ savers = [p \in 1..MaxSavers |-> SaverIdle]
    /\ progress_file = NoProgressFile

\* A progress file in the middle of an analysis, loaded.
PendingInit ==
    /\ tracker_result = NoReturn
    /\ savers = [p \in 1..MaxSavers |-> SaverIdle]
    /\ \E n \in 0..MaxEntries :
          \E entry_of \in [1..n -> Phases \X Statuses
                                   \X { "critical", "high-complexity", "standard", NoValue }] :
              /\ progress_file =
                     PlannedFile(Metadata(Then, Then),
                                 [k \in { str(phase) : phase \in Phases } |-> PhaseInfo(k)],
                                 [i \in 1..n |->
                                     FileEntry(EntryPath(i, "/"), entry_of[i][1],
                                               entry_of[i][2], entry_of[i][3])])
              /\ tracker_data = load(progress_file.content)

\* The progress file that two processes are about to save.
SaversInit ==
    /\ tracker_data = NoData
    /\ tracker_result = NoReturn
    /\ savers = [p \in 1..MaxSavers |-> SaverIdle]
    /\ progress_file = [exists |-> TRUE, lock |-> 0, content |-> Document(0)]

Running == tracker_result.op # "save"

\* load, lines 124-176.
Load ==
    /\ Running
    /\ IF progress_file.exists
       THEN /\ tracker_data' = load(progress_file.content)
            /\ tracker_result' = Return("load", 0)
       ELSE /\ tracker_result' = Raise("load", "FileNotFoundError")
            /\ UNCHANGED tracker_data
    /\ UNCHANGED <<progress_file, savers>>

\* The self.load() of lines 221-222, 321-322 when self.data is None.
Loaded == IF tracker_data.loaded THEN tracker_data ELSE load(progress_file.content)

\* update_file, lines 233-277.
UpdateFile ==
    /\ Running
    /\ \E i \in 1..MaxEntries, sep \in {"/", "\\"},
          status \in {NoValue, "analyzing", "done"},
          classification \in {NoValue, "critical"} :
          IF ~tracker_data.loaded /\ ~progress_file.exists
          THEN /\ tracker_result' = Raise("update_file", "FileNotFoundError")
               /\ UNCHANGED tracker_data
          ELSE \E entry \in {get_file(Loaded.files, EntryPath(i, sep))} :
                  /\ tracker_result' = Return("update_file", entry)
                  /\ tracker_data' =
                        IF entry = 0 THEN Loaded
                        ELSE [Loaded EXCEPT
                                 !.files[entry] = update_entry(@, status, classification)]
    /\ UNCHANGED <<progress_file, savers>>

\* save, lines 178-209, of a process that no other process disturbs.
Save ==
    /\ Running
    /\ IF tracker_data.loaded
       THEN /\ tracker_data' = save(tracker_data)
            /\ progress_file' = [progress_file EXCEPT
                                    !.exists = TRUE,
                                    !.content = output(save(tracker_data))]
            /\ tracker_result' = Return("save", 0)
       ELSE /\ tracker_result' = Raise("save", "ValueError")
            /\ UNCHANGED <<tracker_data, progress_file>>
    /\ UNCHANGED savers

\* get_next_pending, lines 311-343.
GetNextPending ==
    /\ Running
    /\ \E phase \in Phases \cup {NoPhase} :
          IF ~tracker_data.loaded /\ ~progress_file.exists
          THEN /\ tracker_result' = Raise("get_next_pending", "FileNotFoundError")
               /\ UNCHANGED tracker_data
          ELSE /\ tracker_result' =
                      [ Return("get_next_pending",
                               get_next_pending(Loaded.files, phase))
                        EXCEPT !.phase = phase ]
               /\ tracker_data' = Loaded
    /\ UNCHANGED <<progress_file, savers>>

\* The write of the buffered chunks after..upto of the document of p, each
\* at its own offset; the gap that the truncation by another process has
\* left before them reads as zeros.
written_at(chunks, p, after, upto) ==
    [k \in 1..(IF upto > Len(chunks) THEN upto ELSE Len(chunks)) |->
        IF k > after /\ k <= upto THEN Document(p)[k]
        ELSE IF k <= Len(chunks) THEN chunks[k]
        ELSE <<0, "\\0">>]

\* open(self.progress_file, "w"), line 207: the file is truncated.
SaveOpen ==
    \E p \in 1..MaxSavers :
        /\ savers[p].pc = "idle"
        /\ savers' = [savers EXCEPT ![p].pc = "opened",
                                    ![p].without_lock = @ \/ ~savers[p].holds]
        /\ progress_file' = [progress_file EXCEPT !.content = <<>>]
        /\ UNCHANGED <<tracker_data, tracker_result>>

\* file_lock up to its yield, lines 39-49: flock(LOCK_EX | LOCK_NB) takes
\* the free lock; the OSError of a held lock is logged and the body runs.
flock_or_proceed(lock, p) ==
    IF lock = 0 THEN [enabled |-> TRUE, lock |-> p, holds |-> TRUE]
    ELSE [enabled |-> TRUE, lock |-> lock, holds |-> FALSE]

SaveLock ==
    \E p \in 1..MaxSavers :
        /\ savers[p].pc = "opened"
        /\ \E taken \in {flock_or_proceed(progress_file.lock, p)} :
              /\ taken.enabled
              /\ savers' = [savers EXCEPT ![p].pc = "dumping", ![p].holds = taken.holds]
              /\ progress_file' = [progress_file EXCEPT !.lock = taken.lock]
        /\ UNCHANGED <<tracker_data, tracker_result>>

\* json.dump(output, f, indent=2), line 209: one f.write of a chunk, which
\* stays in the buffer of f.
SaveDump ==
    \E p \in 1..MaxSavers :
        /\ savers[p].pc = "dumping"
        /\ savers[p].dumped < Len(Document(p))
        /\ savers' = [savers EXCEPT ![p].dumped = @ + 1]
        /\ UNCHANGED <<tracker_data, tracker_result, progress_file>>

\* The buffer of f is full during json.dump: its chunks are written.
SaveFlush ==
    \E p \in 1..MaxSavers :
        /\ savers[p].pc = "dumping"
        /\ savers[p].flushed < savers[p].dumped
        /\ savers' = [savers EXCEPT ![p].flushed = savers[p].dumped,
                                    ![p].without_lock = @ \/ ~savers[p].holds]
        /\ progress_file' =
              [progress_file EXCEPT
                  !.content = written_at(@, p, savers[p].flushed, savers[p].dumped)]
        /\ UNCHANGED <<tracker_data, tracker_result>>

\* The finally of file_lock, lines 50-59: flock(LOCK_UN) on the own file
\* description, which releases no lock of another process.
SaveUnlock ==
    \E p \in 1..MaxSavers :
        /\ savers[p].pc = "dumping"
        /\ savers[p].dumped = Len(Document(p))
        /\ savers' = [savers EXCEPT ![p].pc = "unlocked", ![p].holds = FALSE]
        /\ progress_file' =
              [progress_file EXCEPT !.lock = IF savers[p].holds THEN 0 ELSE @]
        /\ UNCHANGED <<tracker_data, tracker_result>>

\* The end of with open(...), line 207: f.close() writes what is left in
\* the buffer.
SaveClose ==
    \E p \in 1..MaxSavers :
        /\ savers[p].pc = "unlocked"
        /\ savers' = [savers EXCEPT
                         ![p].pc = "closed",
                         ![p].flushed = savers[p].dumped,
                         ![p].without_lock =
                             @ \/ (savers[p].flushed < savers[p].dumped /\ ~savers[p].holds)]
        /\ progress_file' =
              [progress_file EXCEPT
                  !.content = IF savers[p].flushed < savers[p].dumped
                              THEN written_at(@, p, savers[p].flushed, savers[p].dumped)
                              ELSE @]
        /\ UNCHANGED <<tracker_data, tracker_result>>

(***************************************************************************)
(* Specifications.                                                         *)
(***************************************************************************)
otherThanClassifier ==
    <<parserVars, complexityVars, countVars, commentVars, rewriteVars, fileVars, driverVars, trackerVars>>
InitClassifier ==
    /\ ClassifierInit
    /\ ParserIdle /\ ComplexityIdle /\ CountIdle /\ CommentIdle /\ RewriteIdle /\ FileIdle /\ DriverIdle /\ TrackerIdle
NextClassifier == ClassifyFromContent /\ UNCHANGED otherThanClassifier
SpecClassifier == InitClassifier /\ [][NextClassifier]_vars

otherThanParser ==
    <<classifierVars, complexityVars, countVars, commentVars, rewriteVars, fileVars, driverVars, trackerVars>>
InitParser ==
    /\ ParserInit
    /\ ClassifierIdle /\ ComplexityIdle /\ CountIdle /\ CommentIdle /\ RewriteIdle /\ FileIdle /\ DriverIdle /\ TrackerIdle
NextParser == ParseContent /\ UNCHANGED otherThanParser
SpecParser == InitParser /\ [][NextParser]_vars

otherThanComplexity ==
    <<classifierVars, parserVars, countVars, commentVars, rewriteVars, fileVars, driverVars, trackerVars>>
InitComplexity ==
    /\ ComplexityInit
    /\ ClassifierIdle /\ ParserIdle /\ CountIdle /\ CommentIdle /\ RewriteIdle /\ FileIdle /\ DriverIdle /\ TrackerIdle
NextComplexity ==
    \/ AddNode /\ UNCHANGED otherThanComplexity
    \/ AnalyzeFunction /\ UNCHANGED otherThanComplexity
SpecComplexity == InitComplexity /\ [][NextComplexity]_vars

otherThanCount ==
    <<classifierVars, parserVars, complexityVars, commentVars, rewriteVars, fileVars, driverVars, trackerVars>>
InitCount ==
    /\ CountInit
    /\ ClassifierIdle /\ ParserIdle /\ ComplexityIdle /\ CommentIdle /\ RewriteIdle /\ FileIdle /\ DriverIdle /\ TrackerIdle
NextCount ==
    \/ AppendLine /\ UNCHANGED otherThanCount
    \/ CountLinesEnter /\ UNCHANGED otherThanCount
    \/ CountLinesStep /\ UNCHANGED otherThanCount
    \/ CountLinesReturn /\ UNCHANGED otherThanCount
SpecCount == InitCount /\ [][NextCount]_vars

otherThanComment ==
    <<classifierVars, parserVars, complexityVars, countVars, rewriteVars, fileVars, driverVars, trackerVars>>
InitComment ==
    /\ CommentInit
    /\ ClassifierIdle /\ ParserIdle /\ ComplexityIdle /\ CountIdle /\ RewriteIdle /\ FileIdle /\ DriverIdle /\ TrackerIdle
NextComment == ClassifyComment /\ UNCHANGED otherThanComment
SpecComment == InitComment /\ [][NextComment]_vars

otherThanRewrite ==
    <<classifierVars, parserVars, complexityVars, countVars, commentVars, fileVars, driverVars, trackerVars>>
InitRewrite ==
    /\ RewriteInit
    /\ ClassifierIdle /\ ParserIdle /\ ComplexityIdle /\ CountIdle /\ CommentIdle /\ FileIdle /\ DriverIdle /\ TrackerIdle
NextRewrite ==
    \/ EditSource(MaxFileLines) /\ UNCHANGED otherThanRewrite
    \/ RewriteDryRun(runs = 0) /\ UNCHANGED otherThanRewrite
    \/ RewriteApply(runs = 0) /\ UNCHANGED otherThanRewrite
    \/ RewriteRaises(runs = 0) /\ UNCHANGED otherThanRewrite
SpecRewrite == InitRewrite /\ [][NextRewrite]_vars

otherThanFile ==
    <<classifierVars, parserVars, complexityVars, countVars, commentVars, rewriteVars, driverVars, trackerVars>>
InitFile ==
    /\ FileInit
    /\ ClassifierIdle /\ ParserIdle /\ ComplexityIdle /\ CountIdle /\ CommentIdle /\ RewriteIdle /\ DriverIdle /\ TrackerIdle
NextFile ==
    \/ AddDefinition /\ UNCHANGED otherThanFile
    \/ AnalyzeFile /\ UNCHANGED otherThanFile
SpecFile == InitFile /\ [][NextFile]_vars

otherThanDriver ==
    <<classifierVars, parserVars, complexityVars, countVars, commentVars, rewriteVars, fileVars, trackerVars>>
InitDriver ==
    /\ DriverInit
    /\ ClassifierIdle /\ ParserIdle /\ ComplexityIdle /\ CountIdle /\ CommentIdle /\ RewriteIdle /\ FileIdle /\ TrackerIdle
NextDriver ==
    \/ Invoke /\ UNCHANGED otherThanDriver
    \/ ParseContentEnter /\ UNCHANGED otherThanDriver
    \/ ParseContentLoop /\ UNCHANGED otherThanDriver
    \/ ParseContentReturn /\ UNCHANGED otherThanDriver
    \/ ClassifyFromContentCall /\ UNCHANGED otherThanDriver
    \/ ClassifyCommentCall /\ UNCHANGED otherThanDriver
    \/ MaxNestingEnter /\ UNCHANGED otherThanDriver
    \/ MaxNestingVisit /\ UNCHANGED otherThanDriver
    \/ MaxNestingReturn /\ UNCHANGED otherThanDriver
    \/ AnalyzeCommentsEnter /\ UNCHANGED otherThanDriver
    \/ AnalyzeCommentsLoop /\ UNCHANGED otherThanDriver
    \/ AnalyzeCommentsReturn /\ UNCHANGED otherThanDriver
SpecDriver == InitDriver /\ [][NextDriver]_vars

otherThanTracker ==
    <<classifierVars, parserVars, complexityVars, countVars, commentVars, rewriteVars, fileVars, driverVars>>
InitTracker ==
    /\ TrackerInit
    /\ ClassifierIdle /\ ParserIdle /\ ComplexityIdle /\ CountIdle /\ CommentIdle /\ RewriteIdle /\ FileIdle /\ DriverIdle
NextTracker ==
    \/ Load /\ UNCHANGED otherThanTracker
    \/ UpdateFile /\ UNCHANGED otherThanTracker
    \/ Save /\ UNCHANGED otherThanTracker
SpecTracker == InitTracker /\ [][NextTracker]_vars

InitRerun == InitRewrite
NextRerun ==
    \/ EditSource(MaxRerunLines) /\ UNCHANGED otherThanRewrite
    \/ RewriteDryRun(runs < MaxRuns) /\ UNCHANGED otherThanRewrite
    \/ RewriteApply(runs < MaxRuns) /\ UNCHANGED otherThanRewrite
    \/ RewriteRaises(runs < MaxRuns) /\ UNCHANGED otherThanRewrite
SpecRerun == InitRerun /\ [][NextRerun]_vars

InitSignature ==
    /\ SignatureInit
    /\ ClassifierIdle /\ ComplexityIdle /\ CountIdle /\ CommentIdle /\ RewriteIdle /\ FileIdle /\ DriverIdle /\ TrackerIdle
NextSignature == ParseContent /\ UNCHANGED otherThanParser
SpecSignature == InitSignature /\ [][NextSignature]_vars

InitStructure ==
    /\ StructureInit
    /\ ClassifierIdle /\ ComplexityIdle /\ CountIdle /\ CommentIdle /\ RewriteIdle /\ FileIdle /\ DriverIdle /\ TrackerIdle
NextStructure == ParseContent /\ UNCHANGED otherThanParser
SpecStructure == InitStructure /\ [][NextStructure]_vars

InitCalls ==
    /\ CallsInit
    /\ ClassifierIdle /\ ComplexityIdle /\ CountIdle /\ CommentIdle /\ RewriteIdle /\ FileIdle /\ DriverIdle /\ TrackerIdle
NextCalls == ParseContent /\ UNCHANGED otherThanParser
SpecCalls == InitCalls /\ [][NextCalls]_vars

InitLength ==
    /\ LengthInit
    /\ ClassifierIdle /\ ParserIdle /\ ComplexityIdle /\ CountIdle /\ CommentIdle /\ RewriteIdle /\ DriverIdle /\ TrackerIdle
NextLength == AnalyzeFile /\ UNCHANGED otherThanFile
SpecLength == InitLength /\ [][NextLength]_vars

InitInvalid ==
    /\ InvalidInit
    /\ ClassifierIdle /\ ComplexityIdle /\ CountIdle /\ CommentIdle /\ RewriteIdle /\ FileIdle /\ DriverIdle /\ TrackerIdle
NextInvalid == ParseContent /\ UNCHANGED otherThanParser
SpecInvalid == InitInvalid /\ [][NextInvalid]_vars

InitRestore ==
    /\ RewriteInit
    /\ ClassifierIdle /\ ParserIdle /\ ComplexityIdle /\ CountIdle /\ CommentIdle /\ FileIdle /\ DriverIdle /\ TrackerIdle
NextRestore ==
    \/ EditSource(MaxFileLines) /\ UNCHANGED otherThanRewrite
    \/ RewriteApplyOrRaise(runs = 0) /\ UNCHANGED otherThanRewrite
SpecRestore == InitRestore /\ [][NextRestore]_vars

InitPending ==
    /\ PendingInit
    /\ ClassifierIdle /\ ParserIdle /\ ComplexityIdle /\ CountIdle /\ CommentIdle /\ RewriteIdle /\ FileIdle /\ DriverIdle
NextPending == GetNextPending /\ UNCHANGED otherThanTracker
SpecPending == InitPending /\ [][NextPending]_vars

InitSavers ==
    /\ SaversInit
    /\ ClassifierIdle /\ ParserIdle /\ ComplexityIdle /\ CountIdle /\ CommentIdle /\ RewriteIdle /\ FileIdle /\ DriverIdle
NextSavers ==
    \/ SaveOpen /\ UNCHANGED otherThanTracker
    \/ SaveLock /\ UNCHANGED otherThanTracker
    \/ SaveDump /\ UNCHANGED otherThanTracker
    \/ SaveFlush /\ UNCHANGED otherThanTracker
    \/ SaveUnlock /\ UNCHANGED otherThanTracker
    \/ SaveClose /\ UNCHANGED otherThanTracker
SpecSavers == InitSavers /\ [][NextSavers]_vars

InitChain ==
    /\ ChainInit
    /\ ClassifierIdle /\ ParserIdle /\ CountIdle /\ CommentIdle /\ RewriteIdle /\ FileIdle /\ DriverIdle /\ TrackerIdle
NextChain == AnalyzeFunction /\ UNCHANGED otherThanComplexity
SpecChain == InitChain /\ [][NextChain]_vars

InitReparse ==
    /\ DriverInit
    /\ ClassifierIdle /\ ParserIdle /\ ComplexityIdle /\ CountIdle /\ CommentIdle /\ RewriteIdle /\ FileIdle /\ TrackerIdle
NextReparse ==
    \/ InvokeParse /\ UNCHANGED otherThanDriver
    \/ ParseContentEnter /\ UNCHANGED otherThanDriver
    \/ ParseContentLoop /\ UNCHANGED otherThanDriver
    \/ ParseContentReturn /\ UNCHANGED otherThanDriver
SpecReparse == InitReparse /\ [][NextReparse]_vars

(***************************************************************************)
(* Claims about classify_comment (specification SpecComment).              *)
(***************************************************************************)
\* The rules in the order of the claim, each with its condition alone.
RuleNames ==
    << "docstring", "backup", "debt", "trivial", "checklist", "why", "teacher",
       "guide", "fallback" >>

RuleHolds(k, a) ==
    CASE RuleNames[k] = "docstring" -> a.is_docstring
      [] RuleNames[k] = "backup" -> is_backup(a.raw_text)
      [] RuleNames[k] = "debt" -> is_debt(a.text)
      [] RuleNames[k] = "trivial" -> is_trivial(a.raw_text, a.is_inline, a.line_content)
      [] RuleNames[k] = "checklist" -> is_checklist(a.text)
      [] RuleNames[k] = "why" -> is_why(a.text)
      [] RuleNames[k] = "teacher" -> is_teacher(a.text)
      [] RuleNames[k] = "guide" -> is_guide(a.text)
      [] RuleNames[k] = "fallback" -> TRUE

RuleOutcome(k, a) ==
    CASE RuleNames[k] = "docstring" ->
            Outcome("function", IF TextLen(a.text) < 10 THEN "enhance" ELSE "keep")
      [] RuleNames[k] = "backup" -> Outcome("backup", "delete")
      [] RuleNames[k] = "debt" -> Outcome("debt", "rewrite")
      [] RuleNames[k] = "trivial" -> Outcome("trivial", "delete")
      [] RuleNames[k] = "fallback" ->
            IF a.is_inline /\ TextLen(a.text) < 20
            THEN Outcome("trivial", "enhance") ELSE Outcome("unknown", "enhance")
      [] OTHER -> Outcome(RuleNames[k], "keep")

FirstRule(a) ==
    CHOOSE k \in 1..Len(RuleNames) :
        RuleHolds(k, a) /\ \A j \in 1..(k - 1) : ~RuleHolds(j, a)

RulesHolding(a) == {k \in 1..(Len(RuleNames) - 1) : RuleHolds(k, a)}

ClassifiedOutcome == Outcome(classified.comment_type, classified.classification)

\* C1: classify_comment returns the outcome of the first rule, in the order
\* docstring, backup, debt, trivial, checklist, why, teacher, guide, fallback,
\* whose condition holds, whatever later rules hold too; a debt marker
\* together with a "because" phrase gives debt/rewrite.
C1_FirstMatchingRuleWins ==
    classified # NotClassified =>
        /\ ClassifiedOutcome = RuleOutcome(FirstRule(comment), comment)
        /\ (FirstRule(comment) = 3 /\ is_why(comment.text))
              => ClassifiedOutcome = Outcome("debt", "rewrite")

C1_Witness ==
    /\ classified # NotClassified
    /\ Cardinality(RulesHolding(comment)) >= 2
    /\ is_debt(comment.text) /\ is_why(comment.text)
    /\ ClassifiedOutcome = Outcome("debt", "rewrite")

(***************************************************************************)
(* Claims about classifier.py (specification SpecClassifier).              *)
(***************************************************************************)
\* The critical patterns some word of the content matches, and the primary
\* subset the specification names.
MatchedCritical ==
    { p \in Range(CRITICAL_PATTERNS) :
        \E w \in content.words : RegexSearch(p, Lower(w)) }

MatchedIndicators ==
    { p \in Range(COMPLEXITY_PATTERNS) :
        \E w \in content.words : RegexSearch(p, Lower(w)) }

PrimarySubset == { "\\bauth", "\\bsecret\\b", "\\bcredential", "\\bencrypt" }

\* C2: the result is CRITICAL exactly when a critical pattern matched and
\* either three or more distinct patterns matched or a matched pattern is in
\* the primary subset; with one or two non-primary matches it is
\* HIGH_COMPLEXITY, whatever the lines of code, imports and indicators are.
C2_CriticalIffThreeOrPrimary ==
    result # NoResult =>
        /\ (result.classification = "critical") <=>
               /\ MatchedCritical # {}
               /\ \/ Cardinality(MatchedCritical) >= 3
                  \/ MatchedCritical \cap PrimarySubset # {}
        /\ ( /\ Cardinality(MatchedCritical) \in {1, 2}
             /\ MatchedCritical \cap PrimarySubset = {} )
               => result.classification = "high-complexity"

\* C2 witness: three non-primary patterns matched in a small file give CRITICAL.
C2_Witness ==
    /\ result # NoResult
    /\ Cardinality(MatchedCritical) = 3
    /\ MatchedCritical \cap PrimarySubset = {}
    /\ content.loc = 0
    /\ result.classification = "critical"

\* C3: with no critical pattern matched the result is HIGH_COMPLEXITY iff
\* loc > 300 or imports > 5 or at least 3 indicators matched; otherwise
\* UTILITY iff loc < 100 and imports <= 3 and no indicator matched; otherwise
\* STANDARD.
C3_ThresholdsExact ==
    (result # NoResult /\ MatchedCritical = {}) =>
        LET high == \/ content.loc > 300
                    \/ content.imports > 5
                    \/ Cardinality(MatchedIndicators) >= 3
            util == /\ content.loc < 100
                    /\ content.imports <= 3
                    /\ MatchedIndicators = {}
        IN  result.classification =
                IF high THEN "high-complexity"
                ELSE IF util THEN "utility" ELSE "standard"

\* C3 witness: the boundary input 300 lines, 5 imports, 2 indicators is classified
\* STANDARD.
C3_Witness ==
    /\ result # NoResult
    /\ MatchedCritical = {}
    /\ content.loc = 300
    /\ content.imports = 5
    /\ Cardinality(MatchedIndicators) = 2
    /\ result.classification = "standard"

(***************************************************************************)
\* C13: verification_required is true exactly when the classification is
\* CRITICAL or HIGH_COMPLEXITY; a content that matches a critical pattern has
\* it, a UTILITY or STANDARD result has not.
C13_VerificationIffCriticalOrHigh ==
    result # NoResult =>
        /\ result.verification_required
              <=> result.classification \in {"critical", "high-complexity"}
        /\ MatchedCritical # {} => result.verification_required
        /\ result.classification \in {"utility", "standard"}
              => ~result.verification_required

\* C13 witness: one non-primary critical pattern in a small file, classified
\* HIGH_COMPLEXITY, asks for verification.
C13_Witness ==
    /\ result # NoResult
    /\ Cardinality(MatchedCritical) = 1
    /\ content.loc = 0 /\ content.imports = 0 /\ MatchedIndicators = {}
    /\ result.classification = "high-complexity"
    /\ result.verification_required

(***************************************************************************)
(* Claims about ast_parser.py (specification SpecParser).                  *)
(***************************************************************************)
\* The number of ImportInfo entries the nodes before node k produce.
RECURSIVE InfoOffset(_)
InfoOffset(k) ==
    IF k = 0 THEN 0
    ELSE InfoOffset(k - 1) +
         (IF tree[k].type = "Import" THEN Len(tree[k].names) ELSE 1)

\* C4: every from-import written with leading dots is classified internal.
C4_RelativeImportsInternal ==
    parse_result.parsed =>
        \A k \in 1..Len(tree) :
            (tree[k].type = "ImportFrom" /\ tree[k].level > 0)
                => parse_result.imports[InfoOffset(k)].is_internal = TRUE

(***************************************************************************)
\* The absolute module names of the import statements, each with the place
\* of its ImportInfo: the names of `import a.b` and the module of
\* `from a.b import c`.
AbsoluteImports ==
    UNION { IF tree[k].type = "Import"
            THEN { [module |-> tree[k].names[i].name, place |-> InfoOffset(k - 1) + i] :
                     i \in 1..Len(tree[k].names) }
            ELSE IF tree[k].level = 0 /\ tree[k].module # None
                 THEN { [module |-> tree[k].module, place |-> InfoOffset(k)] }
                 ELSE {} : k \in 1..Len(tree) }

\* C17: an absolute module name is external (is_internal = False) exactly
\* when its top-level component, lower-cased, is in the allow-list; every
\* other name, a leading underscore included, is internal.
C17_ExternalIffTopLevelInAllowList ==
    parse_result.parsed =>
        \A import \in AbsoluteImports :
            /\ parse_result.imports[import.place].module = import.module
            /\ parse_result.imports[import.place].is_internal
                  <=> LowerName(import.module[1]) \notin _COMMON_EXTERNAL_PREFIXES

\* `import OS.mycompany` is external, `from _private import foo` would not be.
C17_Witness ==
    /\ parse_result.parsed
    /\ tree = << [type |-> "Import",
                  names |-> << [name |-> <<"OS", "mycompany">>, asname |-> None] >>] >>
    /\ parse_result.imports[1].is_internal = FALSE

(***************************************************************************)
(* Claims about measure_complexity.py (specification SpecComplexity).      *)
(***************************************************************************)
\* What one node adds to the cyclomatic complexity, by the formula of the
\* specification; summed over all nodes of the subtree, whatever their place.
NodeWeight(node) ==
    IF node.type \in {"If", "While", "For", "ExceptHandler", "With", "Assert"} THEN 1
    ELSE IF node.type = "BoolOp" THEN node.size - 1
    ELSE IF node.type = "comprehension" THEN 1 + node.size
    ELSE 0

RECURSIVE WeightSum(_, _)
WeightSum(t, n) == IF n = 0 THEN 0 ELSE NodeWeight(t[n]) + WeightSum(t, n - 1)

\* C5: complexity = 1 + branch nodes + (operands - 1) per boolean chain
\* + (1 + filters) per comprehension clause, over the whole subtree.
C5_ComplexityFormula ==
    metrics.analyzed =>
        metrics.complexity = 1 + WeightSum(func_node, Len(func_node))

\* C5 witness: one `if`, one `for` inside it and a two-operand `and` score 4.
C5_Witness ==
    /\ metrics.analyzed
    /\ Len(func_node) = 3
    /\ \E i, j, k \in 1..3 :
          /\ func_node[i].type = "If"
          /\ func_node[j].type = "For" /\ func_node[j].parent = i
          /\ func_node[k].type = "BoolOp" /\ func_node[k].size = 2
    /\ metrics.complexity = 4

\* The number of if/while/for/with/try blocks among node i and the blocks
\* that enclose it.
RECURSIVE EnclosingBlocks(_, _)
EnclosingBlocks(t, i) ==
    IF i = 0 THEN 0
    ELSE (IF t[i].type \in {"If", "While", "For", "With", "Try"} THEN 1 ELSE 0)
         + EnclosingBlocks(t, t[i].parent)

RECURSIVE MaxEnclosing(_, _)
MaxEnclosing(t, n) ==
    IF n = 0 THEN 0 ELSE Max2(EnclosingBlocks(t, n), MaxEnclosing(t, n - 1))

\* C6: the maximum nesting depth is the largest number of if/while/for/with/
\* try blocks enclosing one another along one path, and the current depth is
\* back to 0 when the traversal ends.
C6_MaxNestingIsDeepestPath ==
    metrics.analyzed =>
        /\ metrics.max_nesting = MaxEnclosing(func_node, Len(func_node))
        /\ analyzer.current_depth = 0

\* C6 witness: `if: if: pass` followed by a sibling `if: pass` has depth 2.
C6_Witness ==
    /\ metrics.analyzed
    /\ Len(func_node) = 3
    /\ \A i \in 1..3 : func_node[i].type = "If"
    /\ func_node[2].parent = 1
    /\ func_node[3].parent = 0
    /\ metrics.max_nesting = 2

(***************************************************************************)
(* Claims about count_lines (specification SpecCount).                     *)
(***************************************************************************)
\* The lexical state of Python after a line: which triple quote is open
\* ("none", DQ3 or SQ3).  Outside a string a hash starts a comment that runs
\* to the end of the line; inside a string only the opening quote closes it.
RECURSIVE ScanLine(_, _, _)
ScanLine(line, i, open) ==
    IF i > Len(line) THEN open
    ELSE IF open = "none"
         THEN IF line[i] = "#" THEN "none"
              ELSE IF line[i] \in {DQ3, SQ3} THEN ScanLine(line, i + 1, line[i])
              ELSE ScanLine(line, i + 1, "none")
         ELSE IF line[i] = open THEN ScanLine(line, i + 1, "none")
              ELSE ScanLine(line, i + 1, open)

\* Does a triple-quoted string open in this line, entered outside a string?
RECURSIVE OpensString(_, _)
OpensString(line, i) ==
    /\ i <= Len(line)
    /\ line[i] # "#"
    /\ (line[i] \in {DQ3, SQ3} \/ OpensString(line, i + 1))

\* A line of code in the sense of the specification: not blank, no full-line
\* comment, and no part of a triple-quoted string.
IsCodeLine(line, open) ==
    /\ line # <<>>
    /\ open = "none"
    /\ line[1] # "#"
    /\ ~OpensString(line, 1)

RECURSIVE CodeLineCount(_, _, _)
CodeLineCount(ls, i, open) ==
    IF i > Len(ls) THEN 0
    ELSE (IF IsCodeLine(ls[i], open) THEN 1 ELSE 0)
         + CodeLineCount(ls, i + 1, ScanLine(ls[i], 1, open))

\* C7: count_lines returns the number of lines that are not blank, are no
\* full-line comment and are no part of a triple-quoted docstring, for any
\* sequence of lines.
C7_CountsCodeLinesOutsideDocstrings ==
    count_pc = "done" => code_lines = CodeLineCount(lines, 1, "none")

(***************************************************************************)
(* Claims about rewrite_file (specifications SpecRewrite and SpecRerun).   *)
(***************************************************************************)
\* The input lines in their order, without the lines marked for deletion
\* and with the modified lines replaced in place.
RECURSIVE Survivors(_, _, _)
Survivors(source_lines, i, r) ==
    IF i > Len(source_lines) THEN <<>>
    ELSE (IF (i - 1) \in r.lines_to_delete THEN <<>>
          ELSE IF (i - 1) \in DOMAIN r.line_modifications
               THEN <<r.line_modifications[i - 1]>>
          ELSE <<source_lines[i]>>)
         \o Survivors(source_lines, i + 1, r)

RemovesExactly(r) ==
    r.called =>
        r.rewritten = join(Survivors(splitlines(r.content), 1, r))

\* C8: the rewritten content is the sequence of the input lines in their
\* original order, without the lines marked for deletion and with the
\* modified lines replaced in place, whatever the number and the position of
\* the marked lines (the deletions do not shift one another).
C8_RemovesExactlyMarkedLines ==
    RemovesExactly(dry_run_result) /\ RemovesExactly(apply_result)

C8_Witness ==
    /\ apply_result.called
    /\ Cardinality(apply_result.lines_to_delete) >= 2
    /\ 0 \in apply_result.lines_to_delete
    /\ Len(splitlines(apply_result.content)) > Cardinality(apply_result.lines_to_delete)
    /\ apply_result.rewritten # <<>>

\* The code of every line of a content, comments and blank lines left out.
CodeOf(source) ==
    SelectSeq([n \in 1..Len(splitlines(source)) |->
                  CodeBeforeComment(splitlines(source)[n])],
              LAMBDA code : code # <<>>)

\* The comments classified DELETE that follow code on their own line.
InlineDeletes(source) ==
    { c \in Range(_analyze_comments_impl(source)) :
        /\ ~c.is_docstring
        /\ c.classification = "delete"
        /\ CodeBeforeComment(readlines(source)[c.line_number]) # <<>> }

KeepsCode(r) ==
    r.called =>
        /\ CodeOf(r.rewritten) = CodeOf(r.content)
        /\ \A c \in InlineDeletes(r.content) :
              /\ (c.line_number - 1) \notin r.lines_to_delete
              /\ (c.line_number - 1) \in DOMAIN r.line_modifications
              /\ r.line_modifications[c.line_number - 1]
                    = CodeBeforeComment(readlines(r.content)[c.line_number])

\* C9: a DELETE comment that follows code on its line is dropped and the
\* line is kept with the text before the comment, right-stripped; no line
\* loses its code when a comment is deleted.
C9_InlineDeleteKeepsCode == KeepsCode(dry_run_result) /\ KeepsCode(apply_result)

HoldsDebtMarker(c) == AnySearch(_DEBT_PATTERNS, <<c>>)

\* C11: a comment (no docstring) classified as debt is to be rewritten, and
\* its suggestion starts with the line "# DESIGN DECISION: " followed by the
\* text of the comment without its debt markers; no line of the suggestion
\* holds a debt marker as a whole word.
C11_DebtSuggestionStripsMarkers ==
    (classified # NotClassified /\ ~comment.is_docstring
     /\ classified.comment_type = "debt")
        => /\ classified.classification = "rewrite"
           /\ classified.suggestion # None
           /\ Head(classified.suggestion)
                 = <<HASH, DesignChunk>>
                   \o SelectSeq(comment.text, LAMBDA c : ~HoldsDebtMarker(c))
           /\ \A k \in 1..Len(classified.suggestion) :
                 ~AnySearch(_DEBT_PATTERNS, classified.suggestion[k])

\* "# TODO: x": debt, rewrite, "# DESIGN DECISION: x".
C11_Witness ==
    /\ classified # NotClassified
    /\ comment.text = <<"TODO:", "x">>
    /\ ~comment.is_docstring
    /\ classified.comment_type = "debt"
    /\ classified.classification = "rewrite"
    /\ Head(classified.suggestion) = <<HASH, DesignChunk, "x">>

\* Some trivial indicator has its phrase in the comment and its code pattern
\* on the line.
IndicatorOnLine(a) ==
    /\ a.line_content # None
    /\ \E k \in 1..Len(IndicatorWords) :
          /\ CommentIndicatorSearch(k, a.raw_text)
          /\ CodeIndicatorSearch(k, a.line_content)

\* C12: a comment (no docstring) that is neither commented-out code nor debt
\* is (trivial, delete) exactly when it is inline, its line is supplied and
\* some trivial indicator matches the comment and the line; a comment that
\* is not inline is never (trivial, delete).
C12_TrivialDeleteIffInlineIndicator ==
    (classified # NotClassified /\ ~comment.is_docstring)
        => /\ (~is_backup(comment.raw_text) /\ ~is_debt(comment.text))
                 => (ClassifiedOutcome = Outcome("trivial", "delete")
                        <=> (comment.is_inline /\ IndicatorOnLine(comment)))
           /\ ~comment.is_inline
                 => ClassifiedOutcome # Outcome("trivial", "delete")

\* "i += 1  # increment x" gives (trivial, delete).
C12_Witness ==
    /\ classified # NotClassified
    /\ ~comment.is_docstring /\ comment.is_inline
    /\ comment.text = <<"increment", "x">>
    /\ comment.line_content = <<"i", "+=", "1", SP, HASH, "increment", "x">>
    /\ ClassifiedOutcome = Outcome("trivial", "delete")

(***************************************************************************)
(* Claims about parse_function and parse_content (SpecSignature,           *)
(* SpecStructure).                                                         *)
(***************************************************************************)
\* The parameters of a function node as its signature declares them: the
\* positional ones (positional-only first), the last N of them with the N
\* default expressions, then the keyword-only ones, each with its own
\* default.
DeclaredParameters(node) ==
    LET positional == node.args.posonlyargs \o node.args.args
        without == Len(positional) - Len(node.args.defaults)
    IN  [ k \in 1..Len(positional) |->
            [ name |-> positional[k].arg,
              default |-> IF k > without
                          THEN unparse(node.args.defaults[k - without])
                          ELSE None ] ]
        \o
        [ k \in 1..Len(node.args.kwonlyargs) |->
            [ name |-> node.args.kwonlyargs[k].arg,
              default |-> IF node.args.kw_defaults[k] # None
                          THEN unparse(node.args.kw_defaults[k])
                          ELSE None ] ]

\* The function definitions that are statements of the module body.
ModuleFunctions == SelectSeq(module_body, LAMBDA node : node.type \in FunctionTypes)

\* C14: the parameters of every parsed function are its positional and
\* keyword-only parameters in declaration order, the last N positional ones
\* paired from the right with the N positional defaults, the earlier ones
\* without default, the keyword-only ones paired with their own defaults.
C14_DefaultsPairedFromRight ==
    parse_result.parsed =>
        /\ Len(parse_result.functions) = Len(ModuleFunctions)
        /\ \A k \in 1..Len(ModuleFunctions) :
              parse_result.functions[k].parameters
                  = DeclaredParameters(ModuleFunctions[k])

\* The names of the nodes of a sequence.
NamesOf(nodes) == [k \in 1..Len(nodes) |-> nodes[k].name]

FunctionsIn(body) == SelectSeq(body, LAMBDA node : node.type \in FunctionTypes)

\* The functions defined in the body of a function, at any depth.
RECURSIVE FunctionsInFunctions(_)
FunctionsInFunctions(body) ==
    IF body = <<>> THEN {}
    ELSE (IF Head(body).type \in FunctionTypes
          THEN { node.name : node \in Range(FunctionsIn(walk(Head(body).body))) }
          ELSE FunctionsInFunctions(Head(body).body))
         \cup FunctionsInFunctions(Tail(body))

ModuleClasses == SelectSeq(module_body, LAMBDA node : node.type = "ClassDef")

\* Every name the parse result holds.
NamesInResult ==
    Range(NamesOf(parse_result.functions))
    \cup Range(NamesOf(parse_result.classes))
    \cup Range(parse_result.exported_symbols)
    \cup UNION { Range(NamesOf(class.methods)) \cup Range(class.class_variables) :
                   class \in Range(parse_result.classes) }

\* C15: the top-level functions of the result are the function definitions
\* of the module body, in source order; no function defined in a function
\* is in the result; the functions of a class body are the methods of that
\* class and no top-level function.
C15_TopLevelFunctionsOnly ==
    parse_result.parsed =>
        /\ NamesOf(parse_result.functions) = NamesOf(ModuleFunctions)
        /\ FunctionsInFunctions(module_body) \cap NamesInResult = {}
        /\ Len(parse_result.classes) = Len(ModuleClasses)
        /\ \A k \in 1..Len(ModuleClasses) :
              /\ NamesOf(parse_result.classes[k].methods)
                    = NamesOf(FunctionsIn(ModuleClasses[k].body))
              /\ \A method \in Range(NamesOf(FunctionsIn(ModuleClasses[k].body))) :
                    /\ method \notin Range(NamesOf(parse_result.functions))
                    /\ \A other \in 1..Len(ModuleClasses) :
                          other # k =>
                              method \notin Range(NamesOf(parse_result.classes[other].methods))

\* A module with a function in a function, a method with a function in it
\* and an async function, parsed.
C15_Witness ==
    /\ parse_result.parsed
    /\ Len(module_body) = 3
    /\ module_body[1].type = "FunctionDef" /\ module_body[1].body # <<>>
    /\ module_body[2].type = "ClassDef" /\ Len(module_body[2].body) = 2
    /\ module_body[3].type = "AsyncFunctionDef"
    /\ NamesOf(parse_result.functions) = << <<1>>, <<3>> >>
    /\ NamesOf(parse_result.classes[1].methods) = << <<2, 2>> >>
    /\ FunctionsInFunctions(module_body) = { <<1, 1>>, <<2, 2, 1>> }

(***************************************************************************)
(* Claims about find_external_calls (specification SpecCalls).             *)
(***************************************************************************)
\* The places in external_calls of the call sites of a line and a tag.
CallSites(line_num, call_type) ==
    { k \in 1..Len(parse_result.external_calls) :
        /\ parse_result.external_calls[k].line_number = line_num
        /\ parse_result.external_calls[k].call_type = call_type }

\* The patterns of a tag found in a line, as places in the list of the tag.
MatchingPlaces(tag, line) ==
    { i \in 1..Len(tag.patterns) :
        \E s \in 1..Len(line) : tag.patterns[i] \in PatternsFound(line[s]) }

MatchingTags(line) ==
    { t \in 1..Len(EXTERNAL_CALL_PATTERNS) :
        MatchingPlaces(EXTERNAL_CALL_PATTERNS[t], line) # {} }

\* C16: for every line and every tag at most one call site is recorded, with
\* the first pattern of the tag's list that matches the line; a line that
\* matches patterns of k tags has exactly k call sites, each with the
\* 1-based number of the line.
C16_OneCallSitePerTagAndLine ==
    parse_result.parsed =>
        /\ \A k \in 1..Len(parse_result.external_calls) :
              parse_result.external_calls[k].line_number \in 1..Len(content_lines)
        /\ \A n \in 1..Len(content_lines) :
              /\ \A t \in 1..Len(EXTERNAL_CALL_PATTERNS) :
                    LET tag == EXTERNAL_CALL_PATTERNS[t]
                        sites == CallSites(n, tag.call_type)
                        places == MatchingPlaces(tag, content_lines[n])
                    IN  /\ Cardinality(sites) <= 1
                        /\ (sites # {}) <=> (places # {})
                        /\ \A k \in sites :
                              \E i \in places :
                                  /\ parse_result.external_calls[k].pattern = tag.patterns[i]
                                  /\ \A j \in places : i <= j
              /\ Cardinality({ k \in 1..Len(parse_result.external_calls) :
                                 parse_result.external_calls[k].line_number = n })
                    = Cardinality(MatchingTags(content_lines[n]))

\* A second line that matches three tags, one of them with two patterns.
C16_Witness ==
    /\ parse_result.parsed
    /\ Len(content_lines) = 3
    /\ content_lines[1] = <<"x = 1">>
    /\ Cardinality(MatchingTags(content_lines[2])) = 3
    /\ \E t \in MatchingTags(content_lines[2]) :
          Cardinality(MatchingPlaces(EXTERNAL_CALL_PATTERNS[t], content_lines[2])) = 2
    /\ Cardinality(MatchingPlaces(EXTERNAL_CALL_PATTERNS[1], content_lines[3])) = 2
    /\ Len(parse_result.external_calls) = 6

(***************************************************************************)
(* Claims about concurrent calls (specification SpecDriver).               *)
(***************************************************************************)
\* What a call returns when no other call runs.
ResultAlone(call) ==
    CASE call.op = "parse_content" ->
            parse_content(call.input.tree, call.input.module_body,
                          call.input.content_lines)
      [] call.op = "classify_from_content" -> classify_from_content(call.input)
      [] call.op = "classify_comment" -> comment_info(call.input)
      [] call.op = "calculate_max_nesting" -> calculate_max_nesting(call.input)
      [] call.op = "_analyze_comments_impl" -> _analyze_comments_impl(call.input)

ReturnsAsAlone ==
    \A i \in 1..MaxInvocations :
        invocations[i].pc = "returned" =>
            invocations[i].result = ResultAlone(invocations[i])

\* The objects a call holds.
Held(call) == {call.ref, call.ref2} \ {0}

\* No two calls hold the same object.
OwnObjects ==
    \A i, j \in 1..MaxInvocations :
        i # j => Held(invocations[i]) \cap Held(invocations[j]) = {}

\* A step changes no object but the one of the call that takes the step.
StepOfOneCall ==
    \A r \in 1..Len(objects) :
        objects'[r] # objects[r] =>
            \E i \in 1..MaxInvocations :
                /\ r \in Held(invocations[i])
                /\ \A j \in 1..MaxInvocations \ {i} : invocations'[j] = invocations[j]

\* C18: calls of the core operations on independent inputs, interleaved in
\* any way, each return what they return when run alone, and no call
\* touches an object another call has created.
C18_InterleavedCallsReturnAsAlone ==
    /\ [](ReturnsAsAlone /\ OwnObjects)
    /\ [][StepOfOneCall]_vars

\* Call 2 created its analyzer first and is inside two blocks; call 1 created
\* its own after that and has returned depth 1 in the meantime.
C18_Witness ==
    /\ invocations[1].op = "calculate_max_nesting"
    /\ invocations[1].pc = "returned"
    /\ invocations[1].ref = 2
    /\ invocations[1].result = 1
    /\ invocations[2].op = "calculate_max_nesting"
    /\ invocations[2].pc = "running"
    /\ invocations[2].ref = 1
    /\ objects[1].current_depth = 2


(***************************************************************************)
(* Claims about calculate_function_length and analyze_file (SpecLength,    *)
(* SpecFile).                                                              *)
(***************************************************************************)
\* The definitions of the file with a record in the result.
Recorded ==
    { node \in Range(ast_walk(Definitions(source_tree))) :
        \E k \in 1..Len(file_metrics.functions) :
            file_metrics.functions[k].name = node.name }

RecordOf(node) ==
    CHOOSE record \in Range(file_metrics.functions) : record.name = node.name

\* The leading docstring of a function: a first statement that is a bare
\* string literal.
HasLeadingDocstring(node) ==
    /\ node.body # <<>>
    /\ node.body[1].type = "Expr"
    /\ node.body[1].value.type = "Constant"
    /\ node.body[1].value.kind = "str"

DocstringSpan(node) ==
    IF HasLeadingDocstring(node)
    THEN node.body[1].end_lineno - node.body[1].lineno + 1
    ELSE 0

\* C19: the length of a function is its end line minus its start line plus
\* one, minus the lines of its leading docstring when it has one, and at
\* least 1.
C19_LengthWithoutDocstring ==
    file_metrics.analyzed =>
        \A node \in Recorded :
            RecordOf(node).length =
                Max2(1, node.end_lineno - node.lineno + 1 - DocstringSpan(node))

\* The same for the functions whose docstring has a word in it.
LengthWithoutWordedDocstring ==
    file_metrics.analyzed =>
        \A node \in Recorded :
            (HasLeadingDocstring(node) => strip(node.body[1].value.value) # <<>>)
                => RecordOf(node).length =
                      Max2(1, node.end_lineno - node.lineno + 1 - DocstringSpan(node))


\* The functions of the file, methods included.
EveryFunction ==
    { node \in Range(ast_walk(Definitions(source_tree))) : node.type \in FunctionTypes }

\* The maximum of a metric over the records.
IsMaximum(value, metric(_)) ==
    /\ \A k \in 1..Len(file_metrics.functions) : metric(file_metrics.functions[k]) <= value
    /\ \E k \in 1..Len(file_metrics.functions) : metric(file_metrics.functions[k]) = value

\* The aggregates are those of the per-function records, 0 without records.
AggregatesOverRecords ==
    file_metrics.analyzed =>
        /\ file_metrics.total_functions = Len(file_metrics.functions)
        /\ file_metrics.functions # <<>> =>
              /\ IsMaximum(file_metrics.max_complexity, LAMBDA f : f.complexity)
              /\ IsMaximum(file_metrics.max_length, LAMBDA f : f.length)
              /\ IsMaximum(file_metrics.max_nesting, LAMBDA f : f.max_nesting)
        /\ file_metrics.functions = <<>> =>
              /\ file_metrics.avg_complexity = 0 /\ file_metrics.max_complexity = 0
              /\ file_metrics.avg_length = 0 /\ file_metrics.max_length = 0
              /\ file_metrics.avg_nesting = 0 /\ file_metrics.max_nesting = 0

\* C20: the aggregates cover every function of the file, methods included:
\* each has a record, total_functions counts the records, every max_* is
\* the maximum over the records, and a file without a function reports 0
\* for every average and maximum.
C20_AggregatesCoverEveryFunction ==
    file_metrics.analyzed =>
        /\ \A node \in EveryFunction : node \in Recorded
        /\ file_metrics.total_functions = Cardinality(EveryFunction)
        /\ AggregatesOverRecords

\* The same for the files without an async function.
CoversEveryPlainFunction ==
    (file_metrics.analyzed /\ \A node \in EveryFunction : node.type = "FunctionDef")
        => /\ \A node \in EveryFunction : node \in Recorded
           /\ file_metrics.total_functions = Cardinality(EveryFunction)


(***************************************************************************)
(* Claims about the docstring and debt rules (specification SpecComment).  *)
(***************************************************************************)
\* C21: a docstring is classified function whatever its text holds, with
\* action enhance when the text has fewer than 10 characters and keep when
\* it has 10 or more.
C21_DocstringAlwaysFunction ==
    (classified # NotClassified /\ comment.is_docstring) =>
        /\ classified.comment_type = "function"
        /\ TextLen(comment.text) <= 9 => classified.classification = "enhance"
        /\ TextLen(comment.text) >= 10 => classified.classification = "keep"

\* A docstring of exactly 10 characters that holds a debt marker.
C21_Witness ==
    /\ classified # NotClassified
    /\ comment.is_docstring
    /\ comment.text = <<"TODO:", "hack">>
    /\ classified.comment_type = "function"
    /\ classified.classification = "keep"


\* C22: classify_comment returns the action rewrite exactly when it returns
\* the type debt.
C22_RewriteIffDebt ==
    classified # NotClassified =>
        (classified.classification = "rewrite" <=> classified.comment_type = "debt")

\* An inline comment with a debt marker after code it restates.
C22_Witness ==
    /\ classified # NotClassified
    /\ ~comment.is_docstring
    /\ comment.is_inline
    /\ is_trivial(comment.raw_text, comment.is_inline, comment.line_content)
    /\ classified.comment_type = "debt"
    /\ classified.classification = "rewrite"


(***************************************************************************)
(* Claims about repeated parses (specification SpecReparse).               *)
(***************************************************************************)
\* Equal element by element and in the same order.
SameSequence(a, b) ==
    /\ Len(a) = Len(b)
    /\ \A k \in 1..Len(a) : a[k] = b[k]

\* A function record holds its parameters, a class record its methods.
SameParse(a, b) ==
    /\ SameSequence(a.classes, b.classes)
    /\ SameSequence(a.functions, b.functions)
    /\ SameSequence(a.imports, b.imports)
    /\ SameSequence(a.constants, b.constants)
    /\ SameSequence(a.exported_symbols, b.exported_symbols)
    /\ SameSequence(a.external_calls, b.external_calls)

ParsedText(i) ==
    invocations[i].op = "parse_content" /\ invocations[i].pc = "returned"

\* C23: two parses of the same text return equal results, part by part and
\* in the same order, whatever was parsed before or in between.
C23_SameTextSameParse ==
    \A i, j \in 1..MaxInvocations :
        (ParsedText(i) /\ ParsedText(j) /\ invocations[i].input = invocations[j].input)
            => SameParse(invocations[i].result, invocations[j].result)

\* The text with an import, a constant and a function was parsed twice, the
\* second parse with lists of its own.
C23_Witness ==
    /\ ParsedText(1) /\ ParsedText(2)
    /\ invocations[1].input = invocations[2].input
    /\ invocations[1].ref = 1 /\ invocations[2].ref = 3
    /\ Len(invocations[2].result.functions) = 1
    /\ invocations[2].result.constants = << <<0, 1>> >>
    /\ Len(invocations[2].result.imports) = 1


(***************************************************************************)
(* Claims about texts that do not parse (specification SpecInvalid).       *)
(***************************************************************************)
HasSyntaxError ==
    \E line \in Range(content_lines) :
        "def f(:" \in Range(line) \/ "cursor.execute(" \in Range(line)

ResultParts ==
    { "classes", "functions", "imports", "constants", "external_calls",
      "exported_symbols" }

\* C24: for a text that does not parse the caller gets the parse error and
\* no part of a result; for any other text it gets a result with every part.
C24_ErrorOrCompleteResult ==
    parse_result # NotParsed =>
        IF HasSyntaxError
        THEN /\ ~parse_result.parsed
             /\ parse_result.raised = "SyntaxError"
             /\ DOMAIN parse_result \cap ResultParts = {}
        ELSE /\ parse_result.parsed
             /\ ResultParts \subseteq DOMAIN parse_result

\* A text with a database call on an unclosed line after valid lines.
C24_Witness ==
    /\ content_lines = << <<"cursor.execute(sql)">>, <<"x = 1", "cursor.execute(">> >>
    /\ parse_result # NotParsed
    /\ ~parse_result.parsed
    /\ parse_result.raised = "SyntaxError"


(***************************************************************************)
(* Claims about the backup of rewrite_file (specification SpecRestore)     *)
(***************************************************************************)
\* The run has written, or tried to write, a target that existed.
WroteOverTarget ==
    /\ apply_result.called
    /\ exists(apply_result.files_before, apply_result.target)

\* C25: when rewrite_file runs with dry_run=False on an existing target and
\* a step of the backup/write sequence fails, the target ends up holding its
\* original content and the exception propagates; when all steps succeed the
\* target holds the rewritten content and no .tmp backup file remains.
C25_FailureRestoresOriginal ==
    WroteOverTarget =>
        /\ apply_result.raised <=> apply_result.fault # "none"
        /\ IF apply_result.raised
           THEN /\ exists(files, apply_result.target)
                /\ files[apply_result.target]
                       = apply_result.files_before[apply_result.target]
           ELSE /\ files[apply_result.target] = apply_result.rewritten
                /\ ~exists(files, backup_path(apply_result.target))

\* The same, for every failure but that of the write of the backup.
RestoresUnlessBackupIncomplete ==
    (WroteOverTarget /\ apply_result.fault # "backup_write") =>
        /\ apply_result.raised <=> apply_result.fault # "none"
        /\ IF apply_result.raised
           THEN files[apply_result.target]
                    = apply_result.files_before[apply_result.target]
           ELSE /\ files[apply_result.target] = apply_result.rewritten
                /\ ~exists(files, backup_path(apply_result.target))


(***************************************************************************)
(* Claims about ProgressTracker.save and file_lock (specification          *)
(* SpecSavers).                                                            *)
(***************************************************************************)
\* Process p is between the start of its json.dump and the close of its file.
Writing(p) == savers[p].pc \in {"dumping", "unlocked"}

\* C26: save writes the progress file under an exclusive file lock: when two
\* processes save the same file concurrently, no two of them write the file
\* at the same time, and a process truncates or writes the file only while
\* it holds the lock.
C26_WritesOnlyUnderLock ==
    /\ \A p \in 1..MaxSavers : ~savers[p].without_lock
    /\ \A p, q \in 1..MaxSavers : p # q => ~(Writing(p) /\ Writing(q))

\* What the flock does give: one process at most holds it.
LockHeldByOne ==
    \A p \in 1..MaxSavers : savers[p].holds <=> (progress_file.lock = p /\ Writing(p))

\* Both processes are in json.dump, one of them without the lock.
BothDumping ==
    /\ savers[1].pc = "dumping" /\ savers[1].holds
    /\ savers[2].pc = "dumping" /\ ~savers[2].holds


(***************************************************************************)
(* Claims about save and get_next_pending (specifications SpecTracker and  *)
(* SpecPending).                                                           *)
(***************************************************************************)
\* The entries of phase n in the data, and those of them that are done.
InPhase(n) ==
    { i \in 1..Len(tracker_data.files) : tracker_data.files[i].phase = n }

DoneInPhase(n) == { i \in InPhase(n) : tracker_data.files[i].status = "done" }

\* The progress and the status of a phase are those of done files out of
\* total.
Summarises(info, done, total) ==
    /\ info.progress = << str(done), "/", str(total) >>
    /\ info.status = "completed" <=> (total > 0 /\ done = total)
    /\ info.status = "in_progress" <=> (0 < done /\ done < total)
    /\ info.status = "pending" <=> done = 0

\* C27: after any sequence of update_file calls followed by save, every phase
\* listed in the progress data has progress "<done>/<total>" over the files of
\* that phase, and status completed iff total > 0 and done = total,
\* in_progress iff 0 < done < total, and pending iff done = 0; save raises
\* ValueError and writes nothing when no data was loaded.
C27_SavedPhasesSummariseFiles ==
    tracker_result.op = "save" =>
        IF tracker_data.loaded
        THEN /\ tracker_result.raised = ""
             /\ progress_file.exists
             /\ progress_file.content = output(tracker_data)
             /\ \A n \in Phases :
                   str(n) \in DOMAIN tracker_data.phases =>
                       Summarises(tracker_data.phases[str(n)],
                                  Cardinality(DoneInPhase(n)),
                                  Cardinality(InPhase(n)))
        ELSE /\ tracker_result.raised = "ValueError"
             /\ progress_file.exists =>
                    progress_file.content.metadata.last_updated = Then

\* Updates have made one of the two files of phase 1 done, and save has run.
C27_Witness ==
    /\ tracker_result.op = "save"
    /\ tracker_data.loaded
    /\ Cardinality(InPhase(1)) = 2
    /\ Cardinality(DoneInPhase(1)) = 1
    /\ "1" \in DOMAIN tracker_data.phases
    /\ tracker_data.phases["1"].status = "in_progress"


\* The entries that are pending and pass the phase filter of the last call.
Candidates ==
    { i \in 1..Len(tracker_data.files) :
         /\ tracker_data.files[i].status = "pending"
         /\ tracker_result.phase # NoPhase =>
                tracker_data.files[i].phase = tracker_result.phase }

OfClass(classification) ==
    { i \in Candidates : tracker_data.files[i].classification = classification }

IsFirstOf(i, entries) == i \in entries /\ \A j \in entries : i <= j

\* C28: get_next_pending returns only an entry whose status is pending (and
\* whose phase equals the phase filter when one is given): the first pending
\* critical entry in file order if there is one, otherwise the first pending
\* high-complexity entry, otherwise the first pending entry of any
\* classification, and None exactly when no pending entry passes the filter.
C28_NextPendingByPriority ==
    (tracker_result.op = "get_next_pending" /\ tracker_result.raised = "") =>
        /\ tracker_result.value = 0 <=> Candidates = {}
        /\ tracker_result.value # 0 =>
              /\ tracker_result.value \in Candidates
              /\ IF OfClass("critical") # {}
                 THEN IsFirstOf(tracker_result.value, OfClass("critical"))
                 ELSE IF OfClass("high-complexity") # {}
                      THEN IsFirstOf(tracker_result.value, OfClass("high-complexity"))
                      ELSE IsFirstOf(tracker_result.value, Candidates)

\* The second entry is returned: it is critical and the first, pending in
\* the same phase, is of high complexity.
C28_Witness ==
    /\ tracker_result.op = "get_next_pending"
    /\ tracker_result.phase = 2
    /\ tracker_result.value = 2
    /\ tracker_data.files[1].status = "pending"
    /\ tracker_data.files[1].phase = 2
    /\ tracker_data.files[1].classification = "high-complexity"
    /\ tracker_data.files[2].classification = "critical"


(***************************************************************************)
(* Claims about if/elif chains (specification SpecChain).                  *)
(***************************************************************************)
Ifs(t) == { i \in 1..Len(t) : t[i].type = "If" }

\* The function is one if/elif chain: one If is a statement of the function
\* and every other If is in the else part of an If.
IsElifChain(t) ==
    /\ Cardinality({ i \in Ifs(t) : t[i].parent = 0 }) = 1
    /\ \A i \in Ifs(t) :
          t[i].parent # 0 => (t[i].field = "orelse" /\ t[i].parent \in Ifs(t))

\* C29: in the nesting-depth computation an elif (or an if placed in an else
\* branch) counts as nested inside the if it belongs to: an if/elif chain of
\* k branches whose bodies contain no further blocks has maximum nesting
\* depth k, not 1.
C29_ElifChainDepthIsBranches ==
    (metrics.analyzed /\ IsElifChain(func_node)) =>
        metrics.max_nesting = Cardinality(Ifs(func_node))

\* A chain of if, elif, elif has been measured.
C29_Witness ==
    /\ metrics.analyzed
    /\ IsElifChain(func_node)
    /\ Cardinality(Ifs(func_node)) = 3
    /\ metrics.max_nesting = 3


(***************************************************************************)
(* Claims about the rewrite of debt comments (specification SpecRerun).    *)
(***************************************************************************)
\* The debt comments of a source, and the one on its n-th line.
DebtComments(source) ==
    SelectSeq(_analyze_comments_impl(source),
              LAMBDA c : ~c.is_docstring /\ c.comment_type = "debt")

DebtAt(source, n) == { c \in Range(DebtComments(source)) : c.line_number = n }

\* The line of a debt comment after the rewrite: the two lines of the
\* suggestion, each behind the leading blanks of the line, and the line.
WithSuggestion(line, c) ==
    LET leading == SubSeq(line, 1, Len(line) - Len(lstrip(line)))
    IN  IF Len(c.suggestion) = 2
        THEN << leading \o c.suggestion[1], leading \o c.suggestion[2], line >>
        ELSE << line >>

\* The lines of the output from the n-th line of the source on: those of
\* the debt comments as above, the others as the call has planned them.
RECURSIVE ExpectedFrom(_, _, _)
ExpectedFrom(source_lines, n, r) ==
    IF n > Len(source_lines) THEN <<>>
    ELSE (IF DebtAt(r.content, n) # {}
          THEN WithSuggestion(source_lines[n],
                              CHOOSE c \in DebtAt(r.content, n) : TRUE)
          ELSE IF (n - 1) \in r.lines_to_delete THEN <<>>
          ELSE IF (n - 1) \in DOMAIN r.line_modifications
               THEN <<r.line_modifications[n - 1]>>
          ELSE <<source_lines[n]>>)
         \o ExpectedFrom(source_lines, n + 1, r)

\* The whole output of a call is as expected.
RewrittenAsExpected(r) ==
    r.called => r.rewritten = join(ExpectedFrom(readlines(r.content), 1, r))

\* The three lines of the debt comment c stand together in the output.
StandsAfterSuggestion(source_lines, output_lines, c) ==
    \E p \in 1..(Len(output_lines) - 2) :
        SubSeq(output_lines, p, p + 2)
            = WithSuggestion(source_lines[c.line_number], c)

\* The number of lines that "\n".join has put together.
JoinedLines(text) == Cardinality({ i \in 1..Len(text) : text[i] = NL }) + 1

InsertsBeforeDebt(r) ==
    (r.called /\ DebtComments(r.content) # <<>>) =>
        /\ \A c \in Range(DebtComments(r.content)) :
              /\ Len(c.suggestion) = 2
              /\ StandsAfterSuggestion(readlines(r.content), readlines(r.rewritten), c)
        /\ JoinedLines(r.rewritten)
              = Len(readlines(r.content)) + 2 * Len(DebtComments(r.content))
                  - Cardinality(r.lines_to_delete)
        /\ Len(DebtComments(r.rewritten)) = Len(DebtComments(r.content))
        /\ r.rewritten # r.content

\* C30: for a debt comment, rewrite_file never removes or changes the
\* original comment line: it inserts the two suggestion lines, indented like
\* that line, immediately before it, so the output has exactly two more lines
\* per debt comment; applied again to its own output it inserts the
\* suggestion again for each debt comment, so the rewrite is not idempotent
\* on files that contain debt comments.
C30_DebtSuggestionInsertedBefore ==
    InsertsBeforeDebt(dry_run_result) /\ InsertsBeforeDebt(apply_result)

FormFeedFree(r) == r.called => FF \notin Range(r.content)

\* The same for the files without a form feed.
InsertsBeforeDebtWithoutFormFeed ==
    /\ FormFeedFree(dry_run_result) =>
           (InsertsBeforeDebt(dry_run_result) /\ RewrittenAsExpected(dry_run_result))
    /\ FormFeedFree(apply_result) =>
           (InsertsBeforeDebt(apply_result) /\ RewrittenAsExpected(apply_result))


====
